---- MODULE Spec2Model ----
(***************************************************************************)
(* A model of AutoLogViz's log parser (src/log_parser.py) and anomaly      *)
(* detector (src/anomaly_detector.py).                                     *)
(*                                                                         *)
(* Text is modelled by TLA+ strings; a character is a string of length 1.  *)
(* Python's `re` is modelled by a backtracking matcher over the patterns'  *)
(* syntax trees, with re.match's semantics (anchored at the start, the     *)
(* first match in backtracking order, greedy quantifiers, ordered          *)
(* alternation, IGNORECASE).                                               *)
(***************************************************************************)
EXTENDS Integers, Sequences, FiniteSets, TLC

VARIABLES
    log_content,      \* the text blob handed to parse_logs
    pd_infers,        \* whether pandas' generic inference reads a non-ISO token
    pc,               \* "ready" before the call, "done" after it
    parsed_entries,   \* parse_logs' local list after its loop
    df,               \* the table parse_logs returned (<<>>: pd.DataFrame())
    raised,           \* the exception that escaped parse_logs, "" if none
    stats,            \* what get_parsing_stats came to, None before the call
    parsers,          \* the number of LogParser instances made
    calls,            \* the calls of parse_logs made one after the other
    logs,             \* the table handed to the detector
    sklearn,          \* what IsolationForest and DBSCAN give on that table
    dpc,              \* the detector call to come, or the one made
    anomaly_scores,   \* the method score vectors handed to the combiner
    anomalies,        \* the list detect_anomalies returned
    escaped,          \* the exception that escaped detect_anomalies, "" if none
    method_vector,    \* the vector a method called on its own returned
    summary,          \* what get_anomaly_summary returned, None before the call
    session_state,    \* st.session_state: log_data, parsed_logs, anomalies
    widgets,          \* the values of the filter widgets of the sidebar
    uploaded,         \* the latest upload and the text and table stored before it
    detection,        \* the latest detection run: its list and the records flagged
    anomaly_data      \* what data.iloc[anomalies] came to in this run of the page

parser_vars == <<log_content, pd_infers, pc, parsed_entries, df, raised, stats, parsers, calls>>

detector_vars ==
    <<logs, sklearn, dpc, anomaly_scores, anomalies, escaped, method_vector, summary>>

dashboard_vars == <<session_state, widgets, uploaded, detection, anomaly_data>>

vars == <<parser_vars, detector_vars, dashboard_vars>>

(***************************************************************************)
(* Characters and strings.                                                 *)
(***************************************************************************)
Ch(s, i) == SubSeq(s, i, i)

LowerLetters == "abcdefghijklmnopqrstuvwxyz"
UpperLetters == "ABCDEFGHIJKLMNOPQRSTUVWXYZ"
DigitChars == "0123456789"

InStr(c, str) == \E i \in 1..Len(str) : Ch(str, i) = c

CharsOf(str) == {Ch(str, i) : i \in 1..Len(str)}

DigitSet == CharsOf(DigitChars)
LowerSet == CharsOf(LowerLetters)
WordSet == DigitSet \cup LowerSet \cup CharsOf(UpperLetters) \cup {"_"}
SpaceSet == {" ", "\t", "\n", "\r", "\f"}

IsDigit(c) == c \in DigitSet
IsWord(c) == c \in WordSet
IsSpace(c) == c \in SpaceSet

UpperOf ==
    [c \in LowerSet |->
        Ch(UpperLetters, CHOOSE i \in 1..Len(LowerLetters) : Ch(LowerLetters, i) = c)]

\* str.upper() on one character.
UpperCh(c) == IF c \in LowerSet THEN UpperOf[c] ELSE c

\* str.upper(), by halves.
RECURSIVE Upper(_)
Upper(s) ==
    IF Len(s) = 0 THEN ""
    ELSE IF Len(s) = 1 THEN UpperCh(s)
    ELSE Upper(SubSeq(s, 1, Len(s) \div 2)) \o Upper(SubSeq(s, Len(s) \div 2 + 1, Len(s)))

\* str.strip(): from the first to the last character that is not whitespace.
Strip(s) ==
    LET keep == {i \in 1..Len(s) : ~IsSpace(Ch(s, i))}
    IN IF keep = {} THEN ""
       ELSE SubSeq(s, CHOOSE i \in keep : \A j \in keep : i <= j,
                      CHOOSE i \in keep : \A j \in keep : j <= i)

\* str.split('\n') from position start on: the pieces between the newlines,
\* empty pieces kept.
RECURSIVE SplitFrom(_, _)
SplitFrom(s, start) ==
    LET nl == {i \in start..Len(s) : Ch(s, i) = "\n"}
    IN IF nl = {} THEN <<SubSeq(s, start, Len(s))>>
       ELSE LET i == CHOOSE i \in nl : \A j \in nl : i <= j
            IN <<SubSeq(s, start, i - 1)>> \o SplitFrom(s, i + 1)

SplitLines(s) == SplitFrom(s, 1)

\* str.isdigit()
IsDigitStr(s) == s # "" /\ \A i \in 1..Len(s) : IsDigit(Ch(s, i))

\* len(str.split()): the number of maximal runs of non-whitespace.
WordCount(s) ==
    Cardinality({i \in 1..Len(s) :
        /\ ~IsSpace(Ch(s, i))
        /\ (i = 1 \/ IsSpace(Ch(s, i - 1)))})

(***************************************************************************)
(* Regular expressions: a pattern is a sequence of nodes.                  *)
(***************************************************************************)
Cls(c) == [t |-> "cls", c |-> c]          \* \d \w \s \S .
Lit(c) == [t |-> "lit", c |-> c]          \* one literal character
In(str) == [t |-> "in", c |-> {UpperCh(x) : x \in CharsOf(str)}]        \* [...]
NotIn(str) == [t |-> "notin", c |-> {UpperCh(x) : x \in CharsOf(str)}]  \* [^...]
Exact(c) == [t |-> "exact", c |-> c]      \* (?-i:c)
Star(n) == [t |-> "star", r |-> n, min |-> 0, max |-> -1]     \* n*
Plus(n) == [t |-> "star", r |-> n, min |-> 1, max |-> -1]     \* n+
Upto(n, lo, hi) == [t |-> "star", r |-> n, min |-> lo, max |-> hi]  \* n{lo,hi}
Opt(k) == [t |-> "opt", r |-> k]          \* (?:k)?
Alt(ks) == [t |-> "alt", r |-> ks]        \* (?:k1|k2|...)
Grp(name, k) ==                           \* (?P<name>k)
    <<[t |-> "open", c |-> name]>> \o k \o <<[t |-> "close", c |-> name]>>

RECURSIVE Rep(_, _)
Rep(n, count) == IF count = 0 THEN <<>> ELSE <<n>> \o Rep(n, count - 1)   \* n{count}

RECURSIVE Word(_)
Word(s) == IF s = "" THEN <<>> ELSE <<Lit(Ch(s, 1))>> \o Word(SubSeq(s, 2, Len(s)))

d == Cls("d")
w == Cls("w")
sp == Cls("s")
nsp == Cls("S")
any == Cls("any")

\* Whether the one-character node n takes character c (under IGNORECASE).
Takes(n, c) ==
    CASE n.t = "cls" ->
           (CASE n.c = "d" -> IsDigit(c)
              [] n.c = "w" -> IsWord(c)
              [] n.c = "s" -> IsSpace(c)
              [] n.c = "S" -> ~IsSpace(c)
              [] n.c = "any" -> c # "\n")
      [] n.t = "lit" -> UpperCh(c) = UpperCh(n.c)
      [] n.t = "exact" -> c = n.c
      [] n.t = "in" -> UpperCh(c) \in n.c
      [] n.t = "notin" -> UpperCh(c) \notin n.c

\* The length of the longest run of characters from position i that n takes,
\* not longer than max (max < 0: unbounded).
Run(n, s, i, max) ==
    LET most == IF max < 0 \/ max > Len(s) - i + 1 THEN Len(s) - i + 1 ELSE max
    IN CHOOSE len \in 0..most :
           /\ \A j \in 0..(len - 1) : Takes(n, Ch(s, i + j))
           /\ (len = most \/ ~Takes(n, Ch(s, i + len)))

IsChar(n) == n.t \in {"cls", "lit", "exact", "in", "notin"}

IsMark(n) == n.t \in {"open", "close"}

\* The number of one-character nodes and group marks at the head of k.
Prefix(k) ==
    CHOOSE p \in 0..Len(k) :
        /\ \A j \in 1..p : IsChar(k[j]) \/ IsMark(k[j])
        /\ (p = Len(k) \/ ~(IsChar(k[p + 1]) \/ IsMark(k[p + 1])))

\* The number of one-character nodes before the j-th node of k.
CharsBefore(k, j) == Cardinality({x \in 1..(j - 1) : IsChar(k[x])})

NoMatch == [ok |-> FALSE]

\* The names of the groups a pattern declares (the keys of groupdict()).
RECURSIVE GroupsOf(_)
GroupsOf(k) ==
    IF k = <<>> THEN {}
    ELSE LET h == Head(k) IN
         (CASE h.t = "open" -> {h.c}
            [] h.t = "opt" -> GroupsOf(h.r)
            [] h.t = "alt" -> UNION {GroupsOf(h.r[j]) : j \in 1..Len(h.r)}
            [] OTHER -> {})
         \cup GroupsOf(Tail(k))

\* caps after the group marks among the first p nodes of k, matched from
\* position i: an opening mark sets the group's start, a closing mark its end.
Marked(k, p, i, caps) ==
    [g \in DOMAIN caps |->
        LET opens == {j \in 1..p : k[j].t = "open" /\ k[j].c = g}
            closes == {j \in 1..p : k[j].t = "close" /\ k[j].c = g}
        IN <<IF opens = {} THEN caps[g][1]
             ELSE i + CharsBefore(k, CHOOSE j \in opens : TRUE),
             IF closes # {} THEN i + CharsBefore(k, CHOOSE j \in closes : TRUE)
             ELSE IF opens # {} THEN 0
             ELSE caps[g][2]>>]

\* The ways to go on matching the node sequence k (not empty) against s
\* from position i, in the order a backtracking matcher tries them; each is
\* the rest of the pattern, the position reached and the groups so far.
\*   one-character nodes and group marks at the head of k: handled at once;
\*   n*, n+, n{lo,hi}: greedy, the longest run first, then shorter ones;
\*   (k1)?: with k1, then without;  (k1|k2|...): the alternatives in order.
Choices(k, s, i, caps) ==
    LET h == Head(k)
        rest == Tail(k)
        p == Prefix(k)
    IN CASE p > 0 ->
              IF /\ i + CharsBefore(k, p + 1) - 1 <= Len(s)
                 /\ \A j \in 1..p :
                      IsChar(k[j]) => Takes(k[j], Ch(s, i + CharsBefore(k, j)))
              THEN <<[k |-> SubSeq(k, p + 1, Len(k)),
                      i |-> i + CharsBefore(k, p + 1),
                      caps |-> Marked(k, p, i, caps)]>>
              ELSE <<>>
         [] h.t = "star" ->
              LET n == Run(h.r, s, i, h.max)
              IN [j \in 1..(n - h.min + 1) |->
                     [k |-> rest, i |-> i + n - j + 1, caps |-> caps]]
         [] h.t = "opt" ->
              <<[k |-> h.r \o rest, i |-> i, caps |-> caps],
                [k |-> rest, i |-> i, caps |-> caps]>>
         [] h.t = "alt" ->
              [j \in 1..Len(h.r) |-> [k |-> h.r[j] \o rest, i |-> i, caps |-> caps]]

\* Match(k, s, i, caps): the first match, in backtracking order, of the node
\* sequence k against s from position i; caps maps each group to <<from, to>>,
\* <<0, 0>> while the group has taken no part in the match.
\* FirstOf(cs, s, j): the first of the choices cs[j], cs[j+1], ... that leads
\* to a match.
RECURSIVE Match(_, _, _, _)
RECURSIVE FirstOf(_, _, _)

Match(k, s, i, caps) ==
    IF k = <<>> THEN [ok |-> TRUE, end |-> i, caps |-> caps]
    ELSE FirstOf(Choices(k, s, i, caps), s, 1)

FirstOf(cs, s, j) ==
    IF j > Len(cs) THEN NoMatch
    ELSE LET OrNext(r) == IF r.ok THEN r ELSE FirstOf(cs, s, j + 1)
         IN OrNext(Match(cs[j].k, s, cs[j].i, cs[j].caps))

None == <<>>
Some(x) == <<x>>

\* re.match(pattern, s, re.IGNORECASE): NoMatch, or ok with groupdict():
\* each declared group's text, None for a group that took no part.
ReMatch(k, s) ==
    LET Result(r) ==
            IF ~r.ok THEN NoMatch
            ELSE [ok |-> TRUE,
                  end |-> r.end,
                  groupdict |-> [g \in DOMAIN r.caps |->
                      IF r.caps[g][1] = 0 THEN None
                      ELSE Some(SubSeq(s, r.caps[g][1], r.caps[g][2] - 1))]]
    IN Result(Match(k, s, 1, [g \in GroupsOf(k) |-> <<0, 0>>]))

(***************************************************************************)
(* LogParser.__init__: the pattern library and the severity table.         *)
(***************************************************************************)
Date == Rep(d, 4) \o <<Lit("-")>> \o Rep(d, 2) \o <<Lit("-")>> \o Rep(d, 2)   \* \d{4}-\d{2}-\d{2}
Time == Rep(d, 2) \o <<Lit(":")>> \o Rep(d, 2) \o <<Lit(":")>> \o Rep(d, 2)   \* \d{2}:\d{2}:\d{2}

\* A variant of the library in which the simple pattern was inserted first;
\* it is used to test that the first-match property depends on the order.
PatternNamesSimpleFirst ==
    <<"simple", "custom_domain", "standard", "apache", "syslog", "java", "fallback">>

\* The insertion order of the patterns dict, which is its iteration order.
PatternNames ==
    <<"custom_domain", "standard", "apache", "syslog", "java", "simple", "fallback">>

custom_domain ==
    Grp("source", <<Plus(nsp)>>) \o <<Plus(sp)>>
    \o Grp("ip", <<Plus(nsp)>>) \o <<Plus(sp)>>
    \o Grp("timestamp", <<Plus(d)>>) \o <<Plus(sp)>>
    \o Grp("severity", <<Plus(w)>>) \o <<Plus(sp)>>
    \o Grp("value", <<Plus(d)>>)

standard ==
    Grp("timestamp",
        Date \o <<Plus(sp)>> \o Time \o <<Opt(<<Lit("."), Plus(d)>>)>>)
    \o <<Star(sp), Opt(<<Lit("[")>>)>>
    \o Grp("severity", <<Plus(w)>>)
    \o <<Opt(<<Lit("]")>>), Star(sp)>>
    \o <<Opt(Grp("source", <<Plus(w)>>))>>
    \o <<Opt(<<Lit(":")>>), Star(sp)>>
    \o Grp("message", <<Star(any)>>)

apache ==
    Grp("timestamp",
        Rep(d, 2) \o <<Lit("/")>> \o Rep(w, 3) \o <<Lit("/")>> \o Rep(d, 4)
        \o <<Lit(":")>> \o Time \o <<Plus(sp), In("+-")>> \o Rep(d, 4))
    \o <<Plus(sp), Lit("[")>>
    \o Grp("severity", <<Plus(w)>>)
    \o <<Lit("]"), Plus(sp)>>
    \o Grp("message", <<Star(any)>>)

syslog ==
    Grp("timestamp",
        Rep(w, 3) \o <<Plus(sp), Upto(d, 1, 2), Plus(sp)>> \o Time)
    \o <<Plus(sp)>>
    \o Grp("source", <<Plus(w)>>) \o <<Plus(sp)>>
    \o Grp("severity", <<Plus(w)>>) \o <<Lit(":"), Plus(sp)>>
    \o Grp("message", <<Star(any)>>)

java ==
    Grp("timestamp",
        Date \o <<Plus(sp)>> \o Time \o <<Lit(",")>> \o Rep(d, 3))
    \o <<Plus(sp)>>
    \o Grp("severity", <<Plus(w)>>)
    \o <<Plus(sp), Lit("[")>>
    \o Grp("source", <<Plus(NotIn("]"))>>)
    \o <<Lit("]"), Plus(sp)>>
    \o Grp("message", <<Star(any)>>)

simple ==
    <<Opt(<<Lit("[")>>)>>
    \o Grp("severity",
           <<Alt(<<Word("ERROR"), Word("WARN"), Word("WARNING"), Word("INFO"),
                   Word("DEBUG"), Word("TRACE"), Word("FATAL"), Word("CRITICAL")>>)>>)
    \o <<Opt(<<Lit("]")>>), Star(sp)>>
    \o Grp("message", <<Star(any)>>)

fallback ==
    Grp("message", <<Star(any)>>)

\* self.patterns[name]
patterns(name) ==
    CASE name = "custom_domain" -> custom_domain
      [] name = "standard" -> standard
      [] name = "apache" -> apache
      [] name = "syslog" -> syslog
      [] name = "java" -> java
      [] name = "simple" -> simple
      [] name = "fallback" -> fallback

\* self.severity_mapping.get(x, x)
severity_mapping(x) ==
    CASE x = "FATAL" -> "FATAL"
      [] x = "CRITICAL" -> "FATAL"
      [] x = "ERROR" -> "ERROR"
      [] x = "ERR" -> "ERROR"
      [] x = "WARN" -> "WARNING"
      [] x = "WARNING" -> "WARNING"
      [] x = "INFO" -> "INFO"
      [] x = "INFORMATION" -> "INFO"
      [] x = "DEBUG" -> "DEBUG"
      [] x = "TRACE" -> "DEBUG"
      [] x = "NOTICE" -> "INFO"
      [] x = "TEST" -> "INFO"
      [] x = "REST" -> "INFO"
      [] x = "JSON" -> "INFO"
      [] x = "RAW" -> "INFO"
      [] OTHER -> x

(***************************************************************************)
(* The inputs: text blobs of up to MaxLines lines.                         *)
(***************************************************************************)
MaxLines == 3

BlankLines == {"", " \t"}

ContentLines ==
    {"h 1 1700000000 INFO 5",
     "h 1 9223372036854775808 ERR 5",
     "2023-01-01 12:00:00 [ERROR] app: boom",
     "Jan  1 12:00:00 host crit: disk",
     "WARNING disk full",
     "###???***",
     " quux: hello "}

\* Lines that are parsed alone and as the only line after a blank one.
SingleLines ==
    {"01/Jan/2023:12:00:00 +0000 [warn] slow",
     "2023-01-01 12:00:00,123 INFO [main] up",
     "2023-01-01 12:00:00.5 warn: slow query",
     "2023-13-45 99:99:99 [x] y: z",
     "Feb 30 12:00:00 host Information: none",
     "h 1 253402300799 notice 5",
     "h 1 253402300800 Test 5",
     "h 1 9223372036854775807 rest 5",
     "h 1 99999999999999999999999999 json 5",
     "h 1 20230101 raw 5",
     "h 1 0 quux 5",
     "h 1 1 Err 5",
     "h 1 1 fatal 5",
     "h 1 1 CRITICAL 5",
     "h 1 1 warn 5",
     "h 1 1 Warning 5",
     "h 1 1 debug 5",
     "h 1 1 TRACE 5",
     "h 1 1 error 5",
     "h 1 1 w_9 5",
     "info 1 2 Json 5",
     "[debug] x",
     "trace: y",
     "fatal",
     "critical condition",
     "information"}

RECURSIVE Join(_)
Join(lines) ==
    IF lines = <<>> THEN ""
    ELSE IF Len(lines) = 1 THEN lines[1]
    ELSE lines[1] \o "\n" \o Join(Tail(lines))

Blobs ==
    {Join(ls) : ls \in UNION {[1..n -> BlankLines \cup ContentLines] : n \in 0..MaxLines}}
    \cup SingleLines
    \cup {"\n" \o l : l \in SingleLines}

(***************************************************************************)
(* LogParser._parse_single_line                                            *)
(***************************************************************************)
\* dict.setdefault: the value is set only when the key is absent; a key
\* present with the value None keeps None.
SetDefault(entry, key, val) ==
    IF key \in DOMAIN entry THEN entry ELSE entry @@ (key :> val)

\* dict.get(key, default)
Get(entry, key, default) ==
    IF key \in DOMAIN entry THEN entry[key] ELSE default

\* How an f-string renders a captured value.
Fmt(v) == IF v = None THEN "None" ELSE v[1]

\* A variant of the body of `if match:` whose severity default is 'unknown';
\* it is used to test that the fallback property depends on the defaults.
BuildEntryUnknownSeverity(groupdict, pattern_name, line, line_num) ==
    SetDefault(SetDefault(SetDefault(SetDefault(
        ("line_number" :> line_num) @@ ("raw_line" :> line)
        @@ ("pattern_used" :> pattern_name) @@ groupdict,
        "timestamp", None), "severity", Some("unknown")),
        "source", Some("unknown")), "message", Some(line))

\* The body of `if match:` for the pattern pattern_name.
BuildEntry(groupdict, pattern_name, line, line_num) ==
    LET e0 == ("line_number" :> line_num) @@ ("raw_line" :> line)
              @@ ("pattern_used" :> pattern_name) @@ groupdict
        e1 == IF pattern_name = "custom_domain"
              THEN ("message" :> Some(
                        Fmt(Get(e0, "source", Some("unknown"))) \o " "
                        \o Fmt(Get(e0, "ip", Some("unknown"))) \o " "
                        \o Fmt(Get(e0, "severity", Some("INFO"))) \o " "
                        \o Fmt(Get(e0, "value", Some("unknown"))))) @@ e0
              ELSE e0
    IN SetDefault(SetDefault(SetDefault(SetDefault(e1,
           "timestamp", None), "severity", Some("INFO")),
           "source", Some("unknown")), "message", Some(line))

\* The loop over self.patterns.items(), from the idx-th pattern on: the first
\* pattern that matches the line and its groupdict(), or ok = FALSE when the
\* loop ends with no match.
RECURSIVE TryPatterns(_, _)
TryPatterns(idx, line) ==
    IF idx > Len(PatternNames) THEN NoMatch
    ELSE LET Found(m) ==
                 IF m.ok
                 THEN [ok |-> TRUE, pattern_name |-> PatternNames[idx],
                       groupdict |-> m.groupdict]
                 ELSE TryPatterns(idx + 1, line)
         IN Found(ReMatch(patterns(PatternNames[idx]), line))

\* The lines of the files uploaded to the dashboard.
UploadLines == {"INFO ok", "ERROR connection refused", "FATAL worker out of memory"}

\* What the loop finds depends on the stripped line alone: it is worked out
\* once for each line of the model.
StrippedLines == {Strip(l) : l \in BlankLines \cup ContentLines \cup SingleLines \cup UploadLines} \ {""}

PatternMatch == [line \in StrippedLines |-> TryPatterns(1, line)]

\* The entry for a stripped line, given what the loop found: the entry of
\* the matching pattern, or the basic entry built after the loop.
EntryFor(m, line, line_num) ==
    IF m.ok THEN BuildEntry(m.groupdict, m.pattern_name, line, line_num)
    ELSE [timestamp |-> None, severity |-> Some("INFO"), source |-> Some("unknown"),
          message |-> Some(line), line_number |-> line_num, raw_line |-> line,
          pattern_used |-> "fallback"]

\* None for a line that is blank once stripped, else Some(entry).
_parse_single_line(line, line_num) ==
    IF Strip(line) = "" THEN None
    ELSE Some(EntryFor(PatternMatch[Strip(line)], Strip(line), line_num))

(***************************************************************************)
(* datetime.strptime, as CPython's _strptime implements it: the format is  *)
(* turned into a regular expression, matched with IGNORECASE from the      *)
(* start of the string, the match must reach the end of the string, and    *)
(* the fields must make a valid datetime.                                  *)
(***************************************************************************)
NonZero == In("123456789")

\* _strptime.TimeRE: the regular expression of each directive.
Directive(c) ==
    CASE c = "Y" -> Grp("Y", Rep(d, 4))
      [] c = "m" -> Grp("m", <<Alt(<< <<Lit("1"), In("012")>>,
                                      <<Lit("0"), NonZero>>,
                                      <<NonZero>> >>)>>)
      [] c = "d" -> Grp("d", <<Alt(<< <<Lit("3"), In("01")>>,
                                      <<In("12"), d>>,
                                      <<Lit("0"), NonZero>>,
                                      <<NonZero>>,
                                      <<Lit(" "), NonZero>> >>)>>)
      [] c = "H" -> Grp("H", <<Alt(<< <<Lit("2"), In("0123")>>,
                                      <<In("01"), d>>,
                                      <<d>> >>)>>)
      [] c = "M" -> Grp("M", <<Alt(<< <<In("012345"), d>>, <<d>> >>)>>)
      [] c = "S" -> Grp("S", <<Alt(<< <<Lit("6"), In("01")>>,
                                      <<In("012345"), d>>,
                                      <<d>> >>)>>)
      [] c = "f" -> Grp("f", <<Upto(In(DigitChars), 1, 6)>>)
      [] c = "b" -> Grp("b", <<Alt(<<Word("jan"), Word("feb"), Word("mar"), Word("apr"),
                                     Word("may"), Word("jun"), Word("jul"), Word("aug"),
                                     Word("sep"), Word("oct"), Word("nov"), Word("dec")>>)>>)
      [] c = "z" -> Grp("z", <<Alt(<<
                        <<In("+-"), d, d, Opt(<<Lit(":")>>), In("012345"), d,
                          Opt(<<Opt(<<Lit(":")>>), In("012345"), d,
                                Opt(<<Lit("."), Upto(d, 1, 6)>>)>>)>>,
                        <<Exact("Z")>> >>)>>)

\* TimeRE.pattern(format): a run of whitespace becomes \s+, a directive its
\* regular expression, any other character itself.
RECURSIVE FormatRegex(_)
FormatRegex(fmt) ==
    IF fmt = "" THEN <<>>
    ELSE IF Ch(fmt, 1) = "%"
         THEN Directive(Ch(fmt, 2)) \o FormatRegex(SubSeq(fmt, 3, Len(fmt)))
    ELSE IF IsSpace(Ch(fmt, 1))
         THEN <<Plus(sp)>>
              \o FormatRegex(SubSeq(fmt, 1 + Run(sp, fmt, 1, -1), Len(fmt)))
    ELSE <<Lit(Ch(fmt, 1))>> \o FormatRegex(SubSeq(fmt, 2, Len(fmt)))

\* int() of a short string of decimal digits.
RECURSIVE ToInt(_)
ToInt(s) ==
    IF s = "" THEN 0
    ELSE 10 * ToInt(SubSeq(s, 1, Len(s) - 1))
         + (CHOOSE v \in 0..9 : Ch(DigitChars, v + 1) = Ch(s, Len(s)))

MonthAbbr == <<"JAN", "FEB", "MAR", "APR", "MAY", "JUN",
               "JUL", "AUG", "SEP", "OCT", "NOV", "DEC">>

IsLeap(y) == (y % 4 = 0 /\ y % 100 # 0) \/ y % 400 = 0

DaysIn(month, year) ==
    IF month = 2 THEN (IF IsLeap(year) THEN 29 ELSE 28)
    ELSE IF month \in {4, 6, 9, 11} THEN 30 ELSE 31

\* Whether the fields that were found make a datetime (the year defaults to
\* 1900, month and day to 1); datetime() refuses a second of 60 or 61.
ValidFields(g) ==
    LET has(k) == k \in DOMAIN g /\ g[k] # None
        year == IF has("Y") THEN ToInt(g["Y"][1]) ELSE 1900
        month == IF has("m") THEN ToInt(g["m"][1])
                 ELSE IF has("b")
                      THEN CHOOSE i \in 1..12 : MonthAbbr[i] = Upper(g["b"][1])
                      ELSE 1
        day == IF has("d") THEN ToInt(Strip(g["d"][1])) ELSE 1
        second == IF has("S") THEN ToInt(g["S"][1]) ELSE 0
    IN /\ year >= 1
       /\ day <= DaysIn(month, year)
       /\ second <= 59

\* The regular expressions of the formats the parser uses, compiled once
\* (_strptime keeps them in _regex_cache).
FormatNames ==
    {"%Y-%m-%d %H:%M:%S.%f", "%Y-%m-%d %H:%M:%S", "%Y-%m-%d %H:%M",
     "%d/%b/%Y:%H:%M:%S %z", "%b %d %H:%M:%S", "%Y-%m-%d", "%m/%d/%Y %H:%M:%S",
     "%m-%d-%Y %H:%M:%S", "%Y%m%d %H:%M:%S", "%Y-%m-%d %H:%M:%S,%f"}

_regex_cache == [fmt \in FormatNames |-> FormatRegex(fmt)]

\* Whether datetime.strptime(s, fmt) returns (TRUE) or raises ValueError.
Strptime(s, fmt) ==
    \E m \in {ReMatch(_regex_cache[fmt], s)} :
        /\ m.ok
        /\ m.end = Len(s) + 1
        /\ ValidFields(m.groupdict)

(***************************************************************************)
(* LogParser._parse_timestamp                                              *)
(***************************************************************************)
formats ==
    <<"%Y-%m-%d %H:%M:%S.%f",
      "%Y-%m-%d %H:%M:%S",
      "%Y-%m-%d %H:%M",
      "%d/%b/%Y:%H:%M:%S %z",
      "%b %d %H:%M:%S",
      "%Y-%m-%d",
      "%m/%d/%Y %H:%M:%S",
      "%m-%d-%Y %H:%M:%S",
      "%Y%m%d %H:%M:%S",
      "%Y-%m-%d %H:%M:%S,%f">>

\* a <= b for strings of decimal digits read as integers.
StripZeros(s) ==
    LET nz == {i \in 1..Len(s) : Ch(s, i) # "0"}
    IN IF nz = {} THEN "0"
       ELSE SubSeq(s, CHOOSE i \in nz : \A j \in nz : i <= j, Len(s))

DecLE(a0, b0) ==
    LET a == StripZeros(a0)
        b == StripZeros(b0)
    IN \/ Len(a) < Len(b)
       \/ /\ Len(a) = Len(b)
          /\ \/ a = b
             \/ \E i \in 1..Len(a) :
                  /\ SubSeq(a, 1, i - 1) = SubSeq(b, 1, i - 1)
                  /\ ToInt(Ch(a, i)) < ToInt(Ch(b, i))

\* The last second datetime.fromtimestamp reads (year 9999, in UTC), and the
\* largest value a 64-bit time_t holds.
MaxEpoch == "253402300799"
MaxTimeT == "9223372036854775807"

\* datetime.fromtimestamp(int(s)) for a string of digits: "ok"; "caught"
\* for the ValueError (year out of range) or OSError (localtime fails) that
\* the except clause names; "OverflowError" for a value no time_t holds,
\* which the except clause does not name.
FromTimestamp(s) ==
    IF DecLE(s, MaxEpoch) THEN "ok"
    ELSE IF DecLE(s, MaxTimeT) THEN "caught"
    ELSE "OverflowError"

\* str.replace(',', '.'), by halves.
RECURSIVE Replace(_)
Replace(s) ==
    IF Len(s) = 0 THEN ""
    ELSE IF Len(s) = 1 THEN (IF s = "," THEN "." ELSE s)
    ELSE Replace(SubSeq(s, 1, Len(s) \div 2)) \o Replace(SubSeq(s, Len(s) \div 2 + 1, Len(s)))

\* ',%f' in fmt
HasCommaF(fmt) == \E i \in 1..(Len(fmt) - 2) : SubSeq(fmt, i, i + 2) = ",%f"

\* A datetime: the reading of text under a format, as an epoch value or by
\* pandas' inference.
Datetime(how, text) == [via |-> how, text |-> text]

\* pd.to_datetime(s, errors='coerce'): a Timestamp, or NaT (None here).  An
\* ISO 8601 date and time is read; whether anything else is read is left
\* to the library (pd_infers).
PdToDatetime(s, lenient) ==
    IF lenient \/ \E fmt \in {"%Y-%m-%d %H:%M:%S.%f", "%Y-%m-%d %H:%M:%S"} : Strptime(s, fmt)
    THEN Some(Datetime("pandas", s))
    ELSE None

\* timestamp_str when the idx-th format is tried: its commas are replaced
\* from the first format holding ',%f' on.
StrAt(idx, s) ==
    IF InStr(",", s) /\ \E j \in 1..idx : j <= Len(formats) /\ HasCommaF(formats[j])
    THEN Replace(s)
    ELSE s

\* The loop over formats (the first format that accepts wins), then the
\* pandas fallback.
TryFormats(s, lenient) ==
    LET At(idx) == IF idx > Len(formats) THEN PdToDatetime(StrAt(Len(formats), s), lenient)
                   ELSE Some(Datetime(formats[idx], StrAt(idx, s)))
        First(accepted) ==
            At(CHOOSE a \in accepted \cup {Len(formats) + 1} :
                   \A b \in accepted : a <= b)
    IN First({idx \in 1..Len(formats) : Strptime(StrAt(idx, s), formats[idx])})

\* [exc |-> the exception that escapes, "" if none, value |-> the result]
_parse_timestamp(timestamp_str, lenient) ==
    IF timestamp_str = None \/ timestamp_str = Some("")
    THEN [exc |-> "", value |-> None]
    ELSE LET s == Strip(timestamp_str[1])
             epoch == IF IsDigitStr(s) THEN FromTimestamp(s) ELSE "caught"
         IN IF epoch = "ok" THEN [exc |-> "", value |-> Some(Datetime("epoch", s))]
            ELSE IF epoch = "OverflowError" THEN [exc |-> "OverflowError", value |-> None]
            ELSE [exc |-> "", value |-> TryFormats(s, lenient)]

\* The timestamp tokens the patterns capture from the lines of the model;
\* each is coerced once.
TimestampTokens ==
    {None} \cup {m.groupdict["timestamp"] :
                   m \in {x \in {PatternMatch[l] : l \in StrippedLines} :
                             x.ok /\ "timestamp" \in DOMAIN x.groupdict}}

Coerced ==
    [tok \in TimestampTokens, lenient \in BOOLEAN |-> _parse_timestamp(tok, lenient)]

(***************************************************************************)
(* LogParser._post_process_dataframe                                       *)
(***************************************************************************)
\* A variant of the normalization that leaves out .str.upper(); it is used
\* to test that the normalization property depends on the case folding.
NormalizeSeverityNoUpper(severity) ==
    IF severity = "" THEN "INFO" ELSE severity_mapping(severity)

\* .str.upper().map(lambda x: self.severity_mapping.get(x, x) if x else 'INFO')
NormalizeSeverity(severity) ==
    LET x == Upper(severity) IN IF x = "" THEN "INFO" ELSE severity_mapping(x)

\* .fillna('unknown').str.strip()
CleanSource(source) == IF source = None THEN "unknown" ELSE Strip(source[1])

\* One row of the table, in the fixed column order; the ip and value columns
\* of custom_domain entries are not among the columns kept.
PostProcessRow(e, ts) ==
    LET message == Strip(e["message"][1])
    IN [timestamp |-> ts.value,
        severity |-> NormalizeSeverity(e["severity"][1]),
        source |-> CleanSource(e["source"]),
        message |-> message,
        line_number |-> e["line_number"],
        has_timestamp |-> ts.value # None,
        message_length |-> Len(message),
        word_count |-> WordCount(message),
        pattern_used |-> e["pattern_used"],
        raw_line |-> e["raw_line"]]

\* [exc |-> the exception that escapes, "" if none, table |-> the result]:
\* an exception _parse_timestamp lets escape while the timestamp column is
\* converted escapes from here too.
_post_process_dataframe(entries, lenient) ==
    LET Table(ts) ==
            IF \E i \in 1..Len(entries) : ts[i].exc # ""
            THEN [exc |-> ts[CHOOSE i \in 1..Len(entries) : ts[i].exc # ""].exc,
                  table |-> <<>>]
            ELSE [exc |-> "",
                  table |-> [i \in 1..Len(entries) |-> PostProcessRow(entries[i], ts[i])]]
    IN Table([i \in 1..Len(entries) |-> Coerced[entries[i]["timestamp"], lenient]])

(***************************************************************************)
(* LogParser.parse_logs                                                    *)
(***************************************************************************)
\* The for loop over enumerate(lines, 1), from line line_num on: a blank
\* line is skipped, and an entry is appended when _parse_single_line gives one.
RECURSIVE ParseLoop(_, _)
ParseLoop(lines, line_num) ==
    IF line_num > Len(lines) THEN <<>>
    ELSE (IF Strip(lines[line_num]) = "" THEN <<>>
          ELSE _parse_single_line(lines[line_num], line_num))
         \o ParseLoop(lines, line_num + 1)

\* log_content.strip().split('\n')
InputLines(content) == SplitLines(Strip(content))

\* A variant of parse_logs without `if not parsed_entries`: the columns of an
\* empty DataFrame do not exist and df['severity'] raises KeyError.  It is
\* used to test that the empty-input property depends on that guard.
parse_logs_unguarded(content, lenient) ==
    LET Finish(entries) ==
            [parsed_entries |-> entries]
            @@ (IF entries = <<>> THEN [exc |-> "KeyError", table |-> <<>>]
                ELSE _post_process_dataframe(entries, lenient))
    IN Finish(ParseLoop(InputLines(content), 1))

\* A variant of parse_logs that does not start from an empty list: the
\* entries of the call before are still in it.  It is used to test that the
\* determinism property depends on the list being a local of the call.
parse_logs_keeping(content, lenient) ==
    LET Finish(entries) ==
            [parsed_entries |-> entries]
            @@ (IF entries = <<>> THEN [exc |-> "", table |-> <<>>]
                ELSE _post_process_dataframe(entries, lenient))
    IN Finish((IF calls = <<>> THEN <<>>
               ELSE ParseLoop(InputLines(calls[Len(calls)].log_content), 1))
              \o ParseLoop(InputLines(content), 1))

\* parse_logs(log_content): the entries the loop collects, the exception
\* that escapes ("" if none) and the table returned; with no entry the
\* table is pd.DataFrame(), the empty table.
parse_logs(content, lenient) ==
    LET Finish(entries) ==
            [parsed_entries |-> entries]
            @@ (IF entries = <<>> THEN [exc |-> "", table |-> <<>>]
                ELSE _post_process_dataframe(entries, lenient))
    IN Finish(ParseLoop(InputLines(content), 1))

\* One call of parse_logs on the uploaded text.
ParseLogs ==
    /\ pc = "ready"
    /\ pc' = "done"
    /\ \E r \in {parse_logs(log_content, pd_infers)} :
          /\ parsed_entries' = r.parsed_entries
          /\ raised' = r.exc
          /\ df' = r.table
    /\ UNCHANGED <<log_content, pd_infers, stats, parsers, calls>>
    /\ UNCHANGED detector_vars
    /\ UNCHANGED dashboard_vars

ParserInit ==
    /\ log_content \in Blobs
    /\ pd_infers \in BOOLEAN
    /\ pc = "ready"
    /\ parsed_entries = <<>>
    /\ df = <<>>
    /\ raised = ""
    /\ stats = None
    /\ parsers = 1
    /\ calls = <<>>

\* The parser when it takes no part: no text was uploaded.
ParserIdle ==
    /\ log_content = ""
    /\ pd_infers = FALSE
    /\ pc = "idle"
    /\ parsed_entries = <<>>
    /\ df = <<>>
    /\ raised = ""
    /\ stats = None
    /\ parsers = 0
    /\ calls = <<>>

(***************************************************************************)
(* What a call comes to, and a few operations of Python, numpy and pandas. *)
(***************************************************************************)
\* What a try body, a method or a library call comes to: a value, or an
\* exception.
Return(value) == [exc |-> "", value |-> value]

Raise(exc) == [exc |-> exc, value |-> <<>>]

\* A variant of max that adds the candidate to the score; it is used to
\* test that the pattern-score property depends on the maximum taken.
Added(a, b) == a + b

\* Python's max of two numbers.
Max(a, b) == IF a >= b THEN a ELSE b

\* The members of a set of integers, in ascending order.
Ascending(set) ==
    [k \in 1..Cardinality(set) |->
        CHOOSE i \in set : Cardinality({j \in set : j < i}) = k - 1]

\* A quotient of two integers that the code computes in floating point.
Ratio(num, den) == [num |-> num, den |-> den]

\* df[column].value_counts(): the number of records of each value that
\* occurs.
value_counts(t, column) ==
    [value \in {t[i][column] : i \in 1..Len(t)} |->
        Cardinality({i \in 1..Len(t) : t[i][column] = value})]

\* sum() of a sequence of numbers.
RECURSIVE SumOf(_)
SumOf(v) == IF v = <<>> THEN 0 ELSE Head(v) + SumOf(Tail(v))

(***************************************************************************)
(* LogParser.get_parsing_stats                                             *)
(***************************************************************************)
\* The statistics of a table that is not empty.
StatsOf(table) ==
    LET Stats(parsed_lines) ==
           [total_lines |-> Len(table),
            parsed_lines |-> parsed_lines,
            success_rate |-> Ratio(100 * parsed_lines, Len(table)),
            patterns_used |-> value_counts(table, "pattern_used"),
            severities_found |-> value_counts(table, "severity"),
            sources_found |-> Cardinality({table[i].source : i \in 1..Len(table)}),
            timestamp_coverage |->
                Ratio(100 * Cardinality({i \in 1..Len(table) : table[i].has_timestamp}),
                      Len(table)),
            average_message_length |->
                Ratio(SumOf([i \in 1..Len(table) |-> table[i].message_length]),
                      Len(table))]
    IN Stats(Cardinality({i \in 1..Len(table) : table[i].pattern_used # "fallback"}))

\* A variant of get_parsing_stats without `if df.empty`: on the empty table
\* len(df) is 0 and the division raises.  It is used to test that the
\* statistics property depends on that guard.
get_parsing_stats_unguarded(table) ==
    IF table = <<>> THEN Raise("ZeroDivisionError") ELSE Return(StatsOf(table))

\* get_parsing_stats(df).  The quotients are kept as fractions:
\* success_rate is parsed_lines / total_lines * 100.
get_parsing_stats(table) ==
    IF table = <<>>
    THEN Return([total_lines |-> 0, parsed_lines |-> 0, success_rate |-> Ratio(0, 1)])
    ELSE Return(StatsOf(table))

\* One call of get_parsing_stats on the table parse_logs returned.
GetParsingStats ==
    /\ pc = "done"
    /\ raised = ""
    /\ stats = None
    /\ stats' = Some(get_parsing_stats(df))
    /\ UNCHANGED <<log_content, pd_infers, pc, parsed_entries, df, raised, calls, parsers>>
    /\ UNCHANGED detector_vars
    /\ UNCHANGED dashboard_vars

(***************************************************************************)
(* Several LogParser instances and several calls of parse_logs.            *)
(***************************************************************************)
MaxParsers == 2
MaxCalls == 3

\* The texts parsed more than once.
RepeatedBlobs ==
    {"", "WARNING disk full", "h 1 1700000000 INFO 5\n###???***",
     "\n2023-01-01 12:00:00.5 warn: slow query"}

\* LogParser(): __init__ gives every instance the same patterns and the
\* same severity table, and nothing assigns to them afterwards.
NewParser ==
    /\ parsers < MaxParsers
    /\ parsers' = parsers + 1
    /\ UNCHANGED <<log_content, pd_infers, pc, parsed_entries, df, raised, stats, calls>>
    /\ UNCHANGED detector_vars
    /\ UNCHANGED dashboard_vars

\* One more call of parse_logs, on any instance and any of the texts; the
\* call and what came of it are written down.
ParseAgain ==
    /\ Len(calls) < MaxCalls
    /\ \E parser \in 1..parsers :
         \E content \in RepeatedBlobs :
           \E r \in {parse_logs(content, pd_infers)} :
              calls' = Append(calls, [parser |-> parser, log_content |-> content,
                                      exc |-> r.exc, table |-> r.table])
    /\ UNCHANGED <<log_content, pd_infers, pc, parsed_entries, df, raised, stats, parsers>>
    /\ UNCHANGED detector_vars
    /\ UNCHANGED dashboard_vars

\* No parser was made yet.
ReparseInit ==
    /\ log_content = ""
    /\ pd_infers \in BOOLEAN
    /\ pc = "idle"
    /\ parsed_entries = <<>>
    /\ df = <<>>
    /\ raised = ""
    /\ stats = None
    /\ calls = <<>>
    /\ parsers = 0

(***************************************************************************)
(* AnomalyDetector (src/anomaly_detector.py).                              *)
(*                                                                         *)
(* A table is a sequence of records; its columns are the fields of its     *)
(* records, and the index of a record is its position counted from 0.      *)
(* Timestamps are whole seconds.  Scores are in tenths (10 is 1.0) and     *)
(* weights in hundredths (25 is 0.25).  What IsolationForest and DBSCAN    *)
(* compute is not worked out: the variable sklearn holds, for the table at *)
(* hand, the labels their fit_predict gives or the exception the fit       *)
(* raises.                                                                 *)
(***************************************************************************)
MaxRows == 11
MaxHot == 3
HotSlots == 5

\* A variant of the except clause that lets the exception go on; it is used
\* to test that the no-exception property depends on the clause.
Uncaught(outcome, n) == outcome

\* np.zeros(len(df))
Zeros(n) == [i \in 1..n |-> 0]

\* except Exception as e: return np.zeros(len(df))
Caught(outcome, n) == IF outcome.exc # "" THEN Return(Zeros(n)) ELSE outcome

\* df.columns, and `column in df.columns`.
Columns(t) == IF t = <<>> THEN {} ELSE DOMAIN t[1]

HasColumn(t, column) == column \in Columns(t)

(***************************************************************************)
(* Method 1: _detect_statistical_anomalies                                 *)
(***************************************************************************)
\* A variant of the body that returns the labels of fit_predict as they
\* are (-1 and 1) instead of comparing them with -1; it is used to test
\* that the range property depends on the comparison.
StatisticalBodyLabels(t, fit) ==
    IF {"message_length", "word_count"} \cap Columns(t) = {} THEN Return(Zeros(Len(t)))
    ELSE IF Len(t) < 5 THEN Return(Zeros(Len(t)))
    ELSE IF fit.isolation_forest.exc # "" THEN fit.isolation_forest
    ELSE Return([i \in 1..Len(t) |-> 10 * fit.isolation_forest.value[i]])

\* features from the columns message_length and word_count; fewer than 5
\* records give zeros; anomaly_scores == -1 as floats.
StatisticalBody(t, fit) ==
    IF {"message_length", "word_count"} \cap Columns(t) = {} THEN Return(Zeros(Len(t)))
    ELSE IF Len(t) < 5 THEN Return(Zeros(Len(t)))
    ELSE IF fit.isolation_forest.exc # "" THEN fit.isolation_forest
    ELSE Return([i \in 1..Len(t) |->
                    IF fit.isolation_forest.value[i] = -1 THEN 10 ELSE 0])

_detect_statistical_anomalies(t, fit) == Caught(StatisticalBody(t, fit), Len(t))

(***************************************************************************)
(* Method 2: _detect_text_anomalies                                        *)
(***************************************************************************)
\* df['message'] on a table without that column raises KeyError; the fit of
\* the vectorizer raises ValueError when no term is left in the vocabulary.
TextBody(t, fit) ==
    IF ~HasColumn(t, "message") THEN Raise("KeyError")
    ELSE IF Len(t) < 5 THEN Return(Zeros(Len(t)))
    ELSE IF fit.dbscan.exc # "" THEN fit.dbscan
    ELSE Return([i \in 1..Len(t) |-> IF fit.dbscan.value[i] = -1 THEN 10 ELSE 0])

_detect_text_anomalies(t, fit) == Caught(TextBody(t, fit), Len(t))

(***************************************************************************)
(* Method 3: _detect_temporal_anomalies                                    *)
(***************************************************************************)
\* df[df['timestamp'].notna()]: the positions of the records that have a
\* timestamp, in table order.
WithTime(t) == Ascending({i \in 1..Len(t) : t[i].timestamp # None})

\* df_with_time.sort_values('timestamp'): the positions of the set rows in
\* ascending order of timestamp.  The sort is not a stable one, so records
\* of equal timestamp can come in any order.
RECURSIVE SortedByTimestamp(_, _)
SortedByTimestamp(t, rows) ==
    IF rows = {} THEN {<<>>}
    ELSE UNION {{<<i>> \o rest : rest \in SortedByTimestamp(t, rows \ {i})} :
                   i \in {r \in rows :
                            \A j \in rows : t[r].timestamp[1] <= t[j].timestamp[1]}}

\* df_with_time['timestamp'].diff().dt.total_seconds().dropna(): the gap
\* before each record of the order but the first.
TimeDiffs(t, order) ==
    [k \in 1..(Len(order) - 1) |->
        t[order[k + 1]].timestamp[1] - t[order[k]].timestamp[1]]

\* The values of v in ascending order.
SortValues(v) ==
    [p \in 1..Len(v) |->
        v[CHOOSE k \in 1..Len(v) :
            Cardinality({j \in 1..Len(v) : v[j] < v[k] \/ (v[j] = v[k] /\ j < k)}) = p - 1]]

\* Four times np.percentile(v, 25 * q) for q = 1 and q = 3, by linear
\* interpolation between the two values around position q * (len - 1) / 4
\* of the sorted values.  For whole seconds every number involved is a
\* multiple of 1/8 and the floating-point arithmetic is exact.
Percentile4(sorted, q) ==
    LET h == q * (Len(sorted) - 1)
    IN IF h % 4 = 0 THEN 4 * sorted[h \div 4 + 1]
       ELSE 4 * sorted[h \div 4 + 1]
            + (h % 4) * (sorted[h \div 4 + 2] - sorted[h \div 4 + 1])

\* (time_diffs < lower_bound) | (time_diffs > upper_bound), where
\* lower_bound = q25 - 1.5 * iqr and upper_bound = q75 + 1.5 * iqr: with
\* a = 4 * q25 and b = 4 * q75, 8 * lower_bound = 5a - 3b and
\* 8 * upper_bound = 5b - 3a.
OutOfFence(diff, a, b) == 8 * diff < 5 * a - 3 * b \/ 8 * diff > 5 * b - 3 * a

\* A variant of the mapping that takes df_with_time_indices[:-1], the
\* earlier record of each gap; it is used to test that the attribution
\* property depends on the end taken.
EarlierEnd(order, k) == order[k]

\* time_diff_indices[k] = df_with_time_indices[1:][k]: the record the k-th
\* gap is mapped to.
LaterEnd(order, k) == order[k + 1]

\* The vector for one order of the records: zeros, and for every gap the
\* float of its flag at the position of the record it is mapped to.
TemporalScores(t, order) ==
    LET Fenced(diffs) ==
            LET Flags(a, b) ==
                    [i \in 1..Len(t) |->
                        IF \E k \in 1..Len(diffs) :
                              LaterEnd(order, k) = i /\ OutOfFence(diffs[k], a, b)
                        THEN 10 ELSE 0]
                Quartiles(sorted) == Flags(Percentile4(sorted, 1), Percentile4(sorted, 3))
            IN IF Len(diffs) < 5 THEN Zeros(Len(t)) ELSE Quartiles(SortValues(diffs))
    IN Fenced(TimeDiffs(t, order))

\* The outcomes the try body can have, one for each order the sort can give.
TemporalBody(t) ==
    IF ~HasColumn(t, "timestamp") THEN {Raise("KeyError")}
    ELSE LET Sorted(df_with_time) ==
                IF Len(df_with_time) < 10 THEN {Return(Zeros(Len(t)))}
                ELSE {Return(TemporalScores(t, order)) :
                         order \in SortedByTimestamp(t, {df_with_time[k] : k \in 1..Len(df_with_time)})}
         IN Sorted(WithTime(t))

_detect_temporal_anomalies(t) == {Caught(outcome, Len(t)) : outcome \in TemporalBody(t)}

(***************************************************************************)
(* Method 4: _detect_severity_anomalies                                    *)
(***************************************************************************)
\* expected_ranges, in dict order; the frequencies in ten-thousandths.
expected_ranges ==
    <<[severity |-> "ERROR", min_freq |-> 10, max_freq |-> 1000],
      [severity |-> "FATAL", min_freq |-> 1, max_freq |-> 500],
      [severity |-> "WARNING", min_freq |-> 100, max_freq |-> 3000],
      [severity |-> "INFO", min_freq |-> 3000, max_freq |-> 9500],
      [severity |-> "DEBUG", min_freq |-> 0, max_freq |-> 5000]>>

\* freq < min_freq or freq > max_freq, for freq = count / total.  The
\* quotient of two small integers rounds to the literal it is compared with
\* only when it equals it, so the comparison is made on the integers.
OutOfRange(count, total, range) ==
    \/ 10000 * count < range.min_freq * total
    \/ 10000 * count > range.max_freq * total

\* A variant of the comparison that takes a frequency of 0.01 for rare too;
\* it is used to test that the small-table property depends on the strict
\* comparison.
AtMostOneInAHundred(count, total) == 100 * count <= total

\* severity_frequencies < 0.01
IsRare(count, total) == 100 * count < total

\* A variant of the second loop that leaves a score already given alone;
\* it is used to test that the scoring property depends on the override.
MarkRareKeeping(scores, t, counts) ==
    [i \in 1..Len(t) |->
        IF IsRare(counts[t[i].severity], Len(t)) /\ scores[i] = 0 THEN 10 ELSE scores[i]]

\* The loop over expected_ranges: 0.5 for the records of a listed severity
\* that occurs with a frequency out of its range.
MarkOutOfRange(t, counts) ==
    [i \in 1..Len(t) |->
        IF \E r \in 1..Len(expected_ranges) :
              /\ expected_ranges[r].severity = t[i].severity
              /\ OutOfRange(counts[t[i].severity], Len(t), expected_ranges[r])
        THEN 5 ELSE 0]

\* The loop over rare_severities: 1.0 for the records of a rare severity,
\* whatever they had.
MarkRare(scores, t, counts) ==
    [i \in 1..Len(t) |-> IF IsRare(counts[t[i].severity], Len(t)) THEN 10 ELSE scores[i]]

SeverityBody(t) ==
    IF ~HasColumn(t, "severity") THEN Raise("KeyError")
    ELSE LET Scored(counts) == MarkRare(MarkOutOfRange(t, counts), t, counts)
         IN Return(Scored(value_counts(t, "severity")))

_detect_severity_anomalies(t) == Caught(SeverityBody(t), Len(t))

(***************************************************************************)
(* Method 5: _detect_pattern_anomalies                                     *)
(***************************************************************************)
\* str.lower() on one character and on a string (by halves); the
\* characters of the model outside A-Z have no other lower case.
LowerCh(c) ==
    IF InStr(c, UpperLetters)
    THEN Ch(LowerLetters, CHOOSE i \in 1..Len(UpperLetters) : Ch(UpperLetters, i) = c)
    ELSE c

RECURSIVE Lower(_)
Lower(s) ==
    IF Len(s) = 0 THEN ""
    ELSE IF Len(s) = 1 THEN LowerCh(s)
    ELSE Lower(SubSeq(s, 1, Len(s) \div 2)) \o Lower(SubSeq(s, Len(s) \div 2 + 1, Len(s)))

\* The characters of s, each to be matched as it is (no IGNORECASE here).
RECURSIVE Literal(_)
Literal(s) == IF s = "" THEN <<>> ELSE <<Exact(Ch(s, 1))>> \o Literal(SubSeq(s, 2, Len(s)))

\* first.*second
Then(first, second) == Literal(first) \o <<Star(any)>> \o Literal(second)

suspicious_patterns ==
    <<Then("failed", "login"),
      Then("unauthorized", "access"),
      Then("connection", "refused"),
      Then("timeout", "exceeded"),
      Then("memory", "leak"),
      Then("stack", "overflow"),
      Then("null", "pointer"),
      Literal("out") \o <<Star(any)>> \o Then("of", "memory"),
      Then("deadlock", "detected"),
      Then("permission", "denied")>>

\* re.search(pattern, s): a match that starts at some position of s.
Search(k, s) == \E i \in 1..(Len(s) + 1) : Match(k, s, i, <<>>).ok

\* The characters \x00-\x7F that a message of the model can hold.
Ascii ==
    CharsOf(" !\"#$%&'()*+,-./0123456789:;<=>?@[\\]^_{|}~")
        \cup CharsOf(LowerLetters) \cup CharsOf(UpperLetters) \cup SpaceSet

\* re.search(r'[^\x00-\x7F]', message)
HasNonAscii(message) == \E i \in 1..Len(message) : Ch(message, i) \notin Ascii

\* re.search(r'(.)\1{10,}', message): a character other than the newline
\* and ten more of it.
HasRepeated(message) ==
    \E i \in 1..(Len(message) - 10) :
        /\ Ch(message, i) # "\n"
        /\ \A j \in 1..10 : Ch(message, i + j) = Ch(message, i)

\* The loop over suspicious_patterns from the k-th on.
RECURSIVE AfterSuspicious(_, _, _)
AfterSuspicious(score, message_lower, k) ==
    IF k > Len(suspicious_patterns) THEN score
    ELSE AfterSuspicious(IF Search(suspicious_patterns[k], message_lower)
                         THEN Max(score, 7) ELSE score,
                         message_lower, k + 1)

\* The body of the loop over the messages: the score of one message.
PatternScore(message) ==
    LET Repeated(score) == IF HasRepeated(message) THEN Max(score, 4) ELSE score
        NonAscii(score) == Repeated(IF HasNonAscii(message) THEN Max(score, 2) ELSE score)
        Long(score) == NonAscii(IF Len(message) > 1000 THEN Max(score, 3) ELSE score)
    IN Long(AfterSuspicious(0, Lower(message), 1))

\* s repeated count times.
RECURSIVE Repeat(_, _)
Repeat(s, count) ==
    IF count = 0 THEN ""
    ELSE IF count % 2 = 1 THEN s \o Repeat(s, count - 1)
    ELSE Repeat(s \o s, count \div 2)

\* The messages of the tables handed to detect_anomalies.
DetectMessages ==
    {"ok", "connection refused", "failed login attempt from host", "worker out of memory"}

\* The messages of the tables handed to the pattern method alone.
PatternMessages ==
    {"ok", "", "failed login", "FAILED Login", "login failed", "failedlogin",
     "unauthorized access", "connection refused after timeout exceeded",
     "memory leak", "stack overflow", "null pointer", "out of memory",
     "out of order", "deadlock detected", "permission denied",
     "café", "permission denied für user",
     Repeat("=", 11), Repeat("=", 10), "aaaaaaaaaaa failed login",
     Repeat("ab", 500), Repeat("ab", 500) \o "a", Repeat("x", 1001),
     Repeat("ab", 500) \o "é", Repeat("ab", 500) \o " stack overflow"}

\* The messages of the tables handed to get_anomaly_summary.
SummaryMessages ==
    {"Connection refused: retry connection later",
     "disk full on node alpha",
     "the disk was full"}

\* The score of every message of the model, worked out once.
Messages == DetectMessages \cup PatternMessages \cup SummaryMessages

RECURSIVE ScoreTable(_)
ScoreTable(messages) ==
    IF messages = {} THEN <<>>
    ELSE LET One(message) ==
                 (message :> PatternScore(message)) @@ ScoreTable(messages \ {message})
         IN One(CHOOSE message \in messages : TRUE)

PatternScores == ScoreTable(Messages)

\* messages = df['message'].fillna('').astype(str) and the loop over them.
PatternBody(t) ==
    IF ~HasColumn(t, "message") THEN Raise("KeyError")
    ELSE Return([i \in 1..Len(t) |-> PatternScores[t[i].message]])

_detect_pattern_anomalies(t) == Caught(PatternBody(t), Len(t))

(***************************************************************************)
(* _combine_anomaly_scores                                                 *)
(***************************************************************************)
\* np.array([0.2, 0.25, 0.2, 0.15, 0.2]), in hundredths.
weights == <<20, 25, 20, 15, 20>>

\* threshold = 0.3, in tenths.
threshold == 3

\* weights[:m].sum(), in hundredths.
RECURSIVE TotalWeight(_)
TotalWeight(m) == IF m = 0 THEN 0 ELSE TotalWeight(m - 1) + weights[m]

\* The sum over the first m vectors of weight times score for the record of
\* index i (counted from 0, as numpy counts).
RECURSIVE WeightedSum(_, _, _)
WeightedSum(scores, m, i) ==
    IF m = 0 THEN 0
    ELSE WeightedSum(scores, m - 1, i) + weights[m] * scores[m][i + 1]

\* np.average(combined_scores, axis=1, weights=weights) after the weights
\* were cut to the number of vectors and normalized: the record of index i
\* has the score final_scores[i] / (10 * TotalWeight(Len(scores))).  With
\* one denominator for all records, the numerators order them; every score
\* the methods can give differs from 0.3 by 0.006 or more, so rounding
\* does not change a comparison with the threshold.
FinalScores(scores, n) ==
    LET RECURSIVE Column(_)
        Column(k) ==
            IF k = 0 THEN <<>>
            ELSE Append(Column(k - 1), WeightedSum(scores, Len(scores), k - 1))
        Indexed(column) == [i \in 0..(n - 1) |-> column[i + 1]]
    IN Indexed(Column(n))

\* A variant of the comparison with a threshold of 0.1; it is used to test
\* that the two-methods property depends on the threshold.
AboveATenth(score, m) == score > TotalWeight(m)

\* final_scores[i] > threshold
Above(score, m) == score > threshold * TotalWeight(m)

\* A variant of np.where(...)[0] that counts the records from 1; it is used
\* to test that the index-validity property depends on the indices.
WhereOneBased(final_scores, m) ==
    Ascending({i + 1 : i \in {j \in DOMAIN final_scores : Above(final_scores[j], m)}})

\* np.where(final_scores > threshold)[0].tolist()
Where(final_scores, m) ==
    Ascending({i \in DOMAIN final_scores : Above(final_scores[i], m)})

\* A variant of the selection that takes the first k records of argsort
\* (the lowest scores); it is used to test that the cap property depends on
\* which end of the order is taken.
BottomLists(final_scores, n, k) ==
    {top \in [1..(IF k = 0 THEN n ELSE k) -> 0..(n - 1)] :
        /\ \A a, b \in DOMAIN top : a < b =>
              /\ top[a] # top[b]
              /\ final_scores[top[a]] <= final_scores[top[b]]
        /\ \A i \in (0..(n - 1)) \ {top[a] : a \in DOMAIN top} :
              \A a \in DOMAIN top : final_scores[top[a]] <= final_scores[i]}

\* np.argsort(final_scores)[-k:].tolist(): the last k indices of an
\* ascending order of the scores (all n of them for k = 0, as [-0:] is the
\* whole array).  The order argsort gives records of equal score is not
\* determined, so every list that some ascending order ends with is
\* possible: k different indices, their scores not decreasing, no record
\* left out scoring more than one taken (so fewer than k records score more
\* than a record taken).
TopLists(final_scores, n, k) ==
    {top \in [1..(IF k = 0 THEN n ELSE k) ->
                {i \in 0..(n - 1) :
                    Cardinality({j \in 0..(n - 1) : final_scores[j] > final_scores[i]})
                        < (IF k = 0 THEN n ELSE k)}] :
        /\ \A a, b \in DOMAIN top : a < b =>
              /\ top[a] # top[b]
              /\ final_scores[top[a]] <= final_scores[top[b]]
        /\ \A i \in (0..(n - 1)) \ {top[a] : a \in DOMAIN top} :
              \A a \in DOMAIN top : final_scores[i] <= final_scores[top[a]]}

\* A variant of the combiner that takes the top of argsort whatever the
\* number of records over the threshold; it is used to test that the
\* threshold property depends on the branch taken.
_combine_always_capped(scores, n) ==
    IF scores = <<>> THEN {<<>>}
    ELSE TopLists(FinalScores(scores, n), n, n \div 5)

\* _combine_anomaly_scores(anomaly_scores, df), n = len(df): the lists it
\* can return.  np.column_stack raises on vectors of different lengths and
\* the except clause returns [].  More than 20% of the records over the
\* threshold (len(anomaly_indices) > n * 0.2, that is 5 * len > n) are
\* replaced by the int(n * 0.2) = n \div 5 records at the top of argsort.
_combine_anomaly_scores(scores, n) ==
    IF scores = <<>> THEN {<<>>}
    ELSE IF \E m \in 1..Len(scores) : Len(scores[m]) # Len(scores[1]) THEN {<<>>}
    ELSE LET Limit(final_scores) ==
                LET Cap(anomaly_indices) ==
                        IF 5 * Len(anomaly_indices) > n
                        THEN TopLists(final_scores, n, n \div 5)
                        ELSE {anomaly_indices}
                IN Cap(Where(final_scores, Len(scores)))
         IN Limit(FinalScores(scores, n))

(***************************************************************************)
(* detect_anomalies                                                        *)
(***************************************************************************)
\* A variant of the guard with the bound one lower; it is used to test that
\* the small-table property depends on the bound.
FewerThanNine(t) == Len(t) < 9

\* df.empty or len(df) < 10
TooFew(t) == Len(t) < 10

\* df['timestamp'].notna().sum()
TimestampCount(t) == Cardinality({i \in 1..Len(t) : t[i].timestamp # None})

\* The outcomes of the methods detect_anomalies calls, in the order it
\* calls them, one list for each order the temporal method's sort can give;
\* the temporal method is called only for a table with a timestamp column
\* and more than 10 timestamps.
MethodOutcomes(t, fit) ==
    {<<_detect_statistical_anomalies(t, fit), _detect_text_anomalies(t, fit)>>
        \o temporal
        \o <<_detect_severity_anomalies(t), _detect_pattern_anomalies(t)>> :
     temporal \in
        IF HasColumn(t, "timestamp") /\ TimestampCount(t) > 10
        THEN {<<outcome>> : outcome \in _detect_temporal_anomalies(t)}
        ELSE {<<>>}}

\* The rest of detect_anomalies for one list of outcomes: an exception a
\* method lets go ends the call; otherwise the vectors go to the combiner.
Combined(outcomes, n) ==
    IF \E m \in 1..Len(outcomes) : outcomes[m].exc # ""
    THEN [anomaly_scores |-> <<>>,
          exc |-> outcomes[CHOOSE m \in 1..Len(outcomes) :
                              /\ outcomes[m].exc # ""
                              /\ \A j \in 1..(m - 1) : outcomes[j].exc = ""].exc,
          returns |-> {<<>>}]
    ELSE LET Stacked(scores) ==
                [anomaly_scores |-> scores,
                 exc |-> "",
                 returns |-> _combine_anomaly_scores(scores, n)]
         IN Stacked([m \in 1..Len(outcomes) |-> outcomes[m].value])

\* detect_anomalies(df): for each way the call can go, the vectors handed
\* to the combiner (none when the guard returns first), the exception that
\* escapes ("" if none) and the lists it can return.
detect_anomalies(t, fit) ==
    IF TooFew(t) THEN {[anomaly_scores |-> <<>>, exc |-> "", returns |-> {<<>>}]}
    ELSE {Combined(outcomes, Len(t)) : outcomes \in MethodOutcomes(t, fit)}

\* One call of detect_anomalies on the table.
DetectAnomalies ==
    /\ dpc = "ready"
    /\ dpc' = "done"
    /\ \E r \in detect_anomalies(logs, sklearn) :
          /\ anomaly_scores' = r.anomaly_scores
          /\ escaped' = r.exc
          /\ anomalies' \in r.returns
    /\ UNCHANGED <<logs, sklearn, method_vector, summary>>
    /\ UNCHANGED parser_vars
    /\ UNCHANGED dashboard_vars

(***************************************************************************)
(* The tables handed to detect_anomalies: up to MaxRows records a second   *)
(* apart; among the last HotSlots of them at most MaxHot that stand out.   *)
(***************************************************************************)
\* The columns of a record that the detector reads.
Record(timestamp, severity, message) ==
    [timestamp |-> timestamp, severity |-> severity, message |-> message,
     message_length |-> Len(message), word_count |-> WordCount(message)]

\* A record that does not stand out: INFO and a plain message at the odd
\* positions, DEBUG and a message with a trouble pattern at the even ones.
QuietRecord(i, at) ==
    Record(Some(at),
           IF i % 2 = 0 THEN "DEBUG" ELSE "INFO",
           IF i % 2 = 0 THEN "connection refused" ELSE "ok")

\* "noisy": a record whose message is like no other and has a trouble
\* pattern.  "alarming": a FATAL record, 100 seconds after the record before
\* it, unlike the others in length and in text.
HotRecord(kind, i, at) ==
    IF kind = "noisy"
    THEN Record(Some(at), IF i % 2 = 0 THEN "DEBUG" ELSE "INFO",
                "failed login attempt from host")
    ELSE Record(Some(at), "FATAL", "worker out of memory")

TableOf(n, kinds) ==
    [i \in 1..n |->
        LET at == i + 100 * Cardinality({j \in DOMAIN kinds : j <= i /\ kinds[j] = "alarming"})
        IN IF i \in DOMAIN kinds THEN HotRecord(kinds[i], i, at) ELSE QuietRecord(i, at)]

\* What sklearn gives on that table: IsolationForest labels the alarming
\* records -1, DBSCAN leaves the noisy and the alarming ones in no cluster.
FitOf(n, kinds) ==
    [isolation_forest |->
        Return([i \in 1..n |-> IF i \in DOMAIN kinds /\ kinds[i] = "alarming" THEN -1 ELSE 1]),
     dbscan |-> Return([i \in 1..n |-> IF i \in DOMAIN kinds THEN -1 ELSE 0])]

\* What can be wrong with a table or with a fit.
Faults ==
    {"none", "no severity", "no message", "no timestamp", "no lengths",
     "IsolationForest raises", "TfidfVectorizer raises"}

\* The table without some columns.
Without(t, columns) ==
    [i \in 1..Len(t) |-> [c \in DOMAIN t[i] \ columns |-> t[i][c]]]

FaultyTable(t, fault) ==
    CASE fault = "no severity" -> Without(t, {"severity"})
      [] fault = "no message" -> Without(t, {"message"})
      [] fault = "no timestamp" -> Without(t, {"timestamp"})
      [] fault = "no lengths" -> Without(t, {"message_length", "word_count"})
      [] OTHER -> t

FaultyFit(fit, fault) ==
    CASE fault = "IsolationForest raises" ->
            [fit EXCEPT !.isolation_forest = Raise("ValueError")]
      [] fault = "TfidfVectorizer raises" -> [fit EXCEPT !.dbscan = Raise("ValueError")]
      [] OTHER -> fit

\* No fit: sklearn was not used.
NoFit == [isolation_forest |-> Return(<<>>), dbscan |-> Return(<<>>)]

\* The tables of up to MaxRows records, every record with a timestamp (so
\* the temporal method runs on the tables of more than 10 records and on
\* no other); the largest tables also with a fault.
DetectorInit ==
    /\ \E n \in 0..MaxRows :
         \E hot \in {h \in SUBSET {i \in 1..n : i > n - HotSlots} : Cardinality(h) <= MaxHot} :
           \E kinds \in [hot -> {"noisy", "alarming"}] :
             \E fault \in (IF n = MaxRows THEN Faults ELSE {"none"}) :
                /\ logs = FaultyTable(TableOf(n, kinds), fault)
                /\ sklearn = FaultyFit(FitOf(n, kinds), fault)
    /\ dpc = "ready"
    /\ anomaly_scores = <<>>
    /\ anomalies = <<>>
    /\ escaped = ""
    /\ method_vector = <<>>
    /\ summary = None

\* The detector when it takes no part: there is no table.
DetectorIdle ==
    /\ logs = <<>>
    /\ sklearn = NoFit
    /\ dpc = "idle"
    /\ anomaly_scores = <<>>
    /\ anomalies = <<>>
    /\ escaped = ""
    /\ method_vector = <<>>
    /\ summary = None

(***************************************************************************)
(* get_anomaly_summary and _find_common_patterns                           *)
(***************************************************************************)
\* The default of the top_n parameter.
top_n == 5

\* str.split(): the maximal runs of characters that are not whitespace, in
\* order.
Split(s) ==
    LET Runs(starts) ==
            [k \in 1..Len(starts) |->
                SubSeq(s, starts[k],
                       CHOOSE e \in starts[k]..Len(s) :
                           /\ \A j \in starts[k]..e : ~IsSpace(Ch(s, j))
                           /\ (e = Len(s) \/ IsSpace(Ch(s, e + 1))))]
    IN Runs(Ascending({i \in 1..Len(s) :
                          ~IsSpace(Ch(s, i)) /\ (i = 1 \/ IsSpace(Ch(s, i - 1)))}))

\* A variant of the test on a word that takes words of 3 characters too;
\* it is used to test that the summary property depends on the length.
AtLeastThree(word) == Len(word) >= 3

\* len(word) > 3
Meaningful(word) == Len(word) > 3

\* The words counted, in the order the two loops meet them.
RECURSIVE CountedWords(_)
CountedWords(messages) ==
    IF messages = <<>> THEN <<>>
    ELSE SelectSeq(Split(Lower(Head(messages))), Meaningful)
         \o CountedWords(Tail(messages))

\* patterns.items(): each word with the number of times it was met, in the
\* order of the first meetings (the insertion order of the dict).
Items(words) ==
    LET Counted(firsts) ==
            [p \in 1..Len(firsts) |->
                <<words[firsts[p]],
                  Cardinality({k \in 1..Len(words) : words[k] = words[firsts[p]]})>>]
    IN Counted(Ascending({k \in 1..Len(words) :
                             \A j \in 1..(k - 1) : words[j] # words[k]}))

\* sorted(items, key=lambda x: x[1], reverse=True): by count, the highest
\* first; the sort is stable, items of equal count keep their order.
SortedByCount(items) ==
    [p \in 1..Len(items) |->
        items[CHOOSE k \in 1..Len(items) :
                 Cardinality({j \in 1..Len(items) :
                                 \/ items[j][2] > items[k][2]
                                 \/ (items[j][2] = items[k][2] /\ j < k)}) = p - 1]]

\* _find_common_patterns(messages): sorted_patterns[:top_n].  Nothing in the
\* try body raises on strings.
_find_common_patterns(messages) ==
    LET Top(sorted_patterns) ==
            SubSeq(sorted_patterns, 1,
                   IF Len(sorted_patterns) < top_n THEN Len(sorted_patterns) ELSE top_n)
    IN Top(SortedByCount(Items(CountedWords(messages))))

\* _analyze_temporal_distribution(anomaly_df): {} (here <<>>) without a
\* timestamp that is not null; isoformat() is not worked out.
_analyze_temporal_distribution(anomaly_df) ==
    LET Span(valid_timestamps) ==
            IF valid_timestamps = {} THEN <<>>
            ELSE [earliest_anomaly |-> CHOOSE x \in valid_timestamps :
                                          \A y \in valid_timestamps : x <= y,
                  latest_anomaly |-> CHOOSE x \in valid_timestamps :
                                        \A y \in valid_timestamps : y <= x,
                  anomaly_span_hours |->
                      Ratio((CHOOSE x \in valid_timestamps : \A y \in valid_timestamps : y <= x)
                            - (CHOOSE x \in valid_timestamps : \A y \in valid_timestamps : x <= y),
                            3600)]
    IN Span({anomaly_df[k].timestamp[1] :
                k \in {j \in 1..Len(anomaly_df) : anomaly_df[j].timestamp # None}})

\* get_anomaly_summary(df, anomaly_indices); df.iloc[anomaly_indices] takes
\* the records at the positions listed, in the order listed.
get_anomaly_summary(t, anomaly_indices) ==
    IF anomaly_indices = <<>> \/ t = <<>>
    THEN [total_anomalies |-> 0,
          anomaly_rate |-> Ratio(0, 1),
          severity_distribution |-> <<>>,
          common_patterns |-> <<>>]
    ELSE LET Summary(anomaly_df) ==
                [total_anomalies |-> Len(anomaly_indices),
                 anomaly_rate |-> Ratio(100 * Len(anomaly_indices), Len(t)),
                 severity_distribution |-> value_counts(anomaly_df, "severity"),
                 common_patterns |->
                     _find_common_patterns([k \in 1..Len(anomaly_df) |-> anomaly_df[k].message]),
                 time_distribution |->
                     IF HasColumn(anomaly_df, "timestamp")
                     THEN _analyze_temporal_distribution(anomaly_df)
                     ELSE <<>>]
         IN Summary([k \in 1..Len(anomaly_indices) |-> t[anomaly_indices[k] + 1]])

\* One call of get_anomaly_summary on a table and a list of indices.
GetAnomalySummary ==
    /\ dpc = "listed"
    /\ dpc' = "summed"
    /\ summary' = Some(get_anomaly_summary(logs, anomalies))
    /\ UNCHANGED <<logs, sklearn, anomaly_scores, anomalies, escaped, method_vector>>
    /\ UNCHANGED parser_vars
    /\ UNCHANGED dashboard_vars

MaxListed == 3

SummaryRecords ==
    {Record(Some(10), "ERROR", "Connection refused: retry connection later"),
     Record(None, "INFO", "disk full on node alpha"),
     Record(Some(7210), "ERROR", "the disk was full")}

\* The lists of different indices into a table of n records.
IndexLists(n) ==
    UNION {{list \in [1..k -> 0..(n - 1)] :
               \A a, b \in 1..k : a # b => list[a] # list[b]} : k \in 0..n}

\* The tables of up to MaxListed records with every list of valid indices,
\* no index twice.
SummaryInit ==
    /\ \E n \in 0..MaxListed :
          /\ logs \in [1..n -> SummaryRecords]
          /\ anomalies \in IndexLists(n)
    /\ sklearn = NoFit
    /\ dpc = "listed"
    /\ anomaly_scores = <<>>
    /\ escaped = ""
    /\ method_vector = <<>>
    /\ summary = None

(***************************************************************************)
(* The detection methods called on their own.                              *)
(***************************************************************************)
MaxBatch == 2
BulkRows == 98
MaxMinor == 2
MaxFew == 3

\* One call of _detect_severity_anomalies on the table.
DetectSeverityAnomalies ==
    /\ dpc = "severity"
    /\ dpc' = "scored"
    /\ method_vector' = _detect_severity_anomalies(logs).value
    /\ UNCHANGED <<logs, sklearn, anomaly_scores, anomalies, escaped, summary>>
    /\ UNCHANGED parser_vars
    /\ UNCHANGED dashboard_vars

\* One call of _detect_pattern_anomalies on the table.
DetectPatternAnomalies ==
    /\ dpc = "pattern"
    /\ dpc' = "scored"
    /\ method_vector' = _detect_pattern_anomalies(logs).value
    /\ UNCHANGED <<logs, sklearn, anomaly_scores, anomalies, escaped, summary>>
    /\ UNCHANGED parser_vars
    /\ UNCHANGED dashboard_vars

\* One call of _detect_temporal_anomalies on the table.
DetectTemporalAnomalies ==
    /\ dpc = "temporal"
    /\ dpc' = "scored"
    /\ \E outcome \in _detect_temporal_anomalies(logs) : method_vector' = outcome.value
    /\ UNCHANGED <<logs, sklearn, anomaly_scores, anomalies, escaped, summary>>
    /\ UNCHANGED parser_vars
    /\ UNCHANGED dashboard_vars

\* Before a method is called on its own.
MethodInit(method) ==
    /\ sklearn = NoFit
    /\ dpc = method
    /\ anomaly_scores = <<>>
    /\ anomalies = <<>>
    /\ escaped = ""
    /\ method_vector = <<>>
    /\ summary = None

\* count records of one severity.
Rows(severity, count) == [i \in 1..count |-> Record(None, severity, "ok")]

\* The tables for the severity method: up to MaxFew records of any
\* severities; BulkRows INFO records with up to MaxMinor records of each
\* other severity around them; one FATAL record among 200.
SeverityInit ==
    /\ \/ \E n \in 1..MaxFew :
            \E column \in [1..n -> {"INFO", "ERROR", "WARNING", "FATAL", "DEBUG", "CRIT"}] :
               logs = [i \in 1..n |-> Record(None, column[i], "ok")]
       \/ \E minor \in [{"ERROR", "WARNING", "FATAL", "DEBUG", "CRIT"} -> 0..MaxMinor] :
            logs = Rows("ERROR", minor["ERROR"]) \o Rows("WARNING", minor["WARNING"])
                   \o Rows("INFO", BulkRows)
                   \o Rows("FATAL", minor["FATAL"]) \o Rows("DEBUG", minor["DEBUG"])
                   \o Rows("CRIT", minor["CRIT"])
       \/ logs = Rows("INFO", 120) \o Rows("FATAL", 1) \o Rows("INFO", 79)
    /\ MethodInit("severity")

\* The tables for the pattern method: up to MaxBatch records with messages
\* of the model.
PatternInit ==
    /\ \E n \in 1..MaxBatch :
         \E column \in [1..n -> PatternMessages] :
            logs = [i \in 1..n |-> Record(None, "INFO", column[i])]
    /\ MethodInit("pattern")

\* The gap before the k-th record of a timeline: 5 or 6 seconds, 100
\* seconds at position big, none at position tie.
Gap(k, big, tie) ==
    IF k = big THEN 100 ELSE IF k = tie THEN 0 ELSE 5 + (k % 2)

\* The timestamp of the k-th record of the timeline.
RECURSIVE TimeAt(_, _, _)
TimeAt(k, big, tie) == IF k = 1 THEN 1000 ELSE TimeAt(k - 1, big, tie) + Gap(k, big, tie)

\* The place in the table of the k-th of n records of a timeline.
Place(k, n, shuffle) ==
    CASE shuffle = "sorted" -> k
      [] shuffle = "reversed" -> n + 1 - k
      [] OTHER -> ((k + 2) % n) + 1

\* The tables for the temporal method: a timeline of MaxRows - 2 to MaxRows
\* records in its order, reversed or rotated, with at most one long gap and
\* one pair of equal timestamps, and with or without a record that has no
\* timestamp at the head or in the middle of the table.
TemporalInit ==
    /\ \E n \in (MaxRows - 2)..MaxRows :
         \E big, tie \in 0..n :
           \E shuffle \in {"sorted", "reversed", "rotated"} :
             \E hole \in {0, 1, 4} :
                /\ big # 1 /\ tie # 1 /\ (big = 0 \/ big # tie)
                /\ LET timed ==
                          [i \in 1..n |->
                              Record(Some(TimeAt(CHOOSE k \in 1..n : Place(k, n, shuffle) = i,
                                             big, tie)),
                                     "INFO", "ok")]
                   IN logs = IF hole = 0 THEN timed
                             ELSE SubSeq(timed, 1, hole - 1)
                                  \o <<Record(None, "INFO", "ok")>>
                                  \o SubSeq(timed, hole, n)
    /\ MethodInit("temporal")

(***************************************************************************)
(* The dashboard (src/app.py): st.session_state, the upload handler, the   *)
(* analysis options of the sidebar and the places where the stored         *)
(* anomaly list is applied to a table.                                     *)
(***************************************************************************)
\* The number of INFO lines in the long file.
MaxQuiet == 9

\* The texts of the uploaded files.  LongText: two ERROR lines, MaxQuiet
\* INFO lines, one FATAL line.
LongText ==
    Join(<<"ERROR connection refused", "ERROR connection refused">>
         \o [i \in 1..MaxQuiet |-> "INFO ok"]
         \o <<"FATAL worker out of memory">>)

ShortText == Join(<<"INFO ok", "ERROR connection refused", "INFO ok">>)

\* A text without a line that is not blank: parse_logs gives no record.
BlankText == " \t\n"

\* A text for which parse_logs raises OverflowError.
OverflowText == "h 1 9223372036854775808 ERR 5"

\* uploaded_file: reads is whether the try block gets a text from it
\* (decode("utf-8") raises UnicodeDecodeError on the bytes of latin1.log),
\* text is what it says.
UploadedFiles ==
    {[name |-> "long.log", reads |-> TRUE, text |-> LongText],
     [name |-> "short.log", reads |-> TRUE, text |-> ShortText],
     [name |-> "blank.log", reads |-> TRUE, text |-> BlankText],
     [name |-> "overflow.log", reads |-> TRUE, text |-> OverflowText],
     [name |-> "latin1.log", reads |-> FALSE, text |-> ShortText]}

\* The engines that parse with LogParser; the Java engine's further
\* processing of the table stores nothing in the three keys modelled.
Engines == {"Python (Standard)", "Java (Distributed)"}

\* parser.parse_logs(log_content) for the text of every file, worked out
\* once; no timestamp of these texts is left to pandas' inference.
RECURSIVE Listed(_, _)
Listed(table, n) == IF n = 0 THEN <<>> ELSE Append(Listed(table, n - 1), table[n])

RECURSIVE ParseTable(_)
ParseTable(texts) ==
    IF texts = {} THEN <<>>
    ELSE LET Outcome(result) ==
                 [exc |-> result.exc, table |-> Listed(result.table, Len(result.table))]
             One(text) ==
                 (text :> Outcome(parse_logs(text, FALSE))) @@ ParseTable(texts \ {text})
         IN One(CHOOSE text \in texts : TRUE)

Parsed == ParseTable({file.text : file \in UploadedFiles})

\* A variant of the assignment that stores the table also when it is
\* empty; it is used to test that the frame property of the upload depends
\* on `if not parsed_logs.empty`.
StoredTableAlways(current, result) ==
    IF result.exc # "" THEN current ELSE Some(result.table)

\* if not parsed_logs.empty: st.session_state.parsed_logs = parsed_logs;
\* an exception of the parser is caught before the assignment.
StoredTable(current, result) ==
    IF result.exc # "" \/ result.table = <<>> THEN current ELSE Some(result.table)

\* process_uploaded_file_enhanced: the session state after the call.  An
\* exception before line 561 leaves the state as it was; log_data is
\* assigned before the engine runs.
process_uploaded_file_enhanced(state, uploaded_file, processing_engine) ==
    IF ~uploaded_file.reads THEN state
    ELSE [state EXCEPT !.log_data = Some(uploaded_file.text),
                       !.parsed_logs = StoredTable(@, Parsed[uploaded_file.text])]

\* st.session_state.parsed_logs['severity'].unique()
Severities(data) == {data[i].severity : i \in 1..Len(data)}

\* The values of the multiselect and of the text input when the widgets
\* are made for a table: default=severities, and no search term.
DefaultWidgets(data) == [selected_severities |-> Severities(data), search_term |-> ""]

SearchTerms == {"", "refused"}

\* filtered_data['message'].str.contains(search_term, case=False), for a
\* term without regular-expression syntax.
Contains(message, term) ==
    \E i \in 1..(Len(message) - Len(term) + 1) :
        SubSeq(Lower(message), i, i + Len(term) - 1) = Lower(term)

\* apply_filters: the rows the masks keep, in table order.  The tables of
\* the model have no timestamp, so time_range is None (lines 605-620).
apply_filters(data, severities, time_range, search_term) ==
    LET BySearch(kept) ==
            IF search_term # ""
            THEN SelectSeq(kept, LAMBDA row : Contains(row.message, search_term))
            ELSE kept
    IN BySearch(IF severities # {}
                THEN SelectSeq(data, LAMBDA row : row.severity \in severities)
                ELSE data)

\* filtered_data of render_analysis_options
FilteredData ==
    apply_filters(session_state.parsed_logs[1], widgets.selected_severities,
                  None, widgets.search_term)

\* What sklearn can give on a table: nothing stands out, or the FATAL
\* records are labelled -1 by IsolationForest and left in no cluster by
\* DBSCAN.
FitsOn(data) ==
    {[isolation_forest |->
         Return([i \in 1..Len(data) |-> IF data[i].severity \in odd THEN -1 ELSE 1]),
      dbscan |->
         Return([i \in 1..Len(data) |-> IF data[i].severity \in odd THEN -1 ELSE 0])] :
     odd \in {{}, {"FATAL"}}}

\* data.iloc[positions]: the rows at the positions, counted from 0;
\* a position past the end raises IndexError.
iloc(data, positions) ==
    IF \E k \in 1..Len(positions) : positions[k] >= Len(data) THEN Raise("IndexError")
    ELSE Return([k \in 1..Len(positions) |-> data[positions[k] + 1]])

\* if anomalies is not None and len(anomalies) > 0: data.iloc[anomalies]
AnomalyData(data) ==
    IF session_state.anomalies = None \/ session_state.anomalies[1] = <<>> THEN None
    ELSE Some(iloc(data, session_state.anomalies[1]))

\* The file uploader of the sidebar, with a file in it.
ProcessUploadedFile ==
    /\ \E uploaded_file \in UploadedFiles, processing_engine \in Engines :
          /\ session_state' =
                process_uploaded_file_enhanced(session_state, uploaded_file,
                                               processing_engine)
          /\ uploaded' = Some([file |-> uploaded_file,
                               log_data |-> session_state.log_data,
                               parsed_logs |-> session_state.parsed_logs])
    /\ widgets' =
          IF session_state'.parsed_logs # None
                /\ (session_state.parsed_logs = None
                       \/ Severities(session_state'.parsed_logs[1])
                            # Severities(session_state.parsed_logs[1]))
          THEN DefaultWidgets(session_state'.parsed_logs[1])
          ELSE widgets
    /\ anomaly_data' = None
    /\ UNCHANGED detection
    /\ UNCHANGED parser_vars
    /\ UNCHANGED detector_vars

\* The multiselect and the text input of render_analysis_options.
ChangeFilters ==
    /\ session_state.parsed_logs # None
    /\ \E selected \in SUBSET Severities(session_state.parsed_logs[1]),
          term \in SearchTerms :
          /\ widgets' = [selected_severities |-> selected, search_term |-> term]
          /\ widgets' # widgets
    /\ anomaly_data' = None
    /\ UNCHANGED <<session_state, uploaded, detection>>
    /\ UNCHANGED parser_vars
    /\ UNCHANGED detector_vars

\* The button "Detect Anomalies": detect_anomalies(filtered_data) of
\* app.py, which stores the list the detector returns and catches what it
\* raises.
ClickDetectAnomalies ==
    /\ session_state.parsed_logs # None
    /\ \E data \in {FilteredData} :
         \E fit \in FitsOn(data) :
           \E run \in detect_anomalies(data, fit) :
             \E returned \in run.returns :
                IF run.exc # "" THEN UNCHANGED <<session_state, detection>>
                ELSE /\ session_state' = [session_state EXCEPT !.anomalies = Some(returned)]
                     /\ detection' = Some([anomalies |-> returned,
                                            flagged |-> iloc(data, returned).value])
    /\ anomaly_data' = None
    /\ UNCHANGED <<widgets, uploaded>>
    /\ UNCHANGED parser_vars
    /\ UNCHANGED detector_vars

\* The button "Clear Anomalies".
ClearAnomalies ==
    /\ session_state.parsed_logs # None
    /\ session_state' = [session_state EXCEPT !.anomalies = None]
    /\ anomaly_data' = None
    /\ UNCHANGED <<widgets, uploaded, detection>>
    /\ UNCHANGED parser_vars
    /\ UNCHANGED detector_vars

\* render_anomalies_tab: the list is applied to the stored table.
RenderAnomaliesTab ==
    /\ session_state.parsed_logs # None
    /\ anomaly_data' = AnomalyData(session_state.parsed_logs[1])
    /\ UNCHANGED <<session_state, widgets, uploaded, detection>>
    /\ UNCHANGED parser_vars
    /\ UNCHANGED detector_vars

\* display_analysis_dashboard(data) for the table the filters leave: the
\* list is applied to that table; nothing is shown for an empty one.
DisplayAnalysisDashboard ==
    /\ session_state.parsed_logs # None
    /\ anomaly_data' = IF FilteredData = <<>> THEN None ELSE AnomalyData(FilteredData)
    /\ UNCHANGED <<session_state, widgets, uploaded, detection>>
    /\ UNCHANGED parser_vars
    /\ UNCHANGED detector_vars

\* The session state as lines 26-32 make it, before any widget exists.
DashboardInit ==
    /\ session_state = [log_data |-> None, parsed_logs |-> None, anomalies |-> None]
    /\ widgets = [selected_severities |-> {}, search_term |-> ""]
    /\ uploaded = None
    /\ detection = None
    /\ anomaly_data = None

\* The dashboard when it takes no part.
DashboardIdle == DashboardInit

(***************************************************************************)
(* The specifications.                                                     *)
(***************************************************************************)
Init == ParserInit /\ DetectorIdle /\ DashboardIdle

Next == ParseLogs \/ GetParsingStats

Spec == Init /\ [][Next]_vars

InitDetect == ParserIdle /\ DetectorInit /\ DashboardIdle

NextDetect == DetectAnomalies

SpecDetect == InitDetect /\ [][NextDetect]_vars

InitReparse == ReparseInit /\ DetectorIdle /\ DashboardIdle

NextReparse == NewParser \/ ParseAgain

SpecReparse == InitReparse /\ [][NextReparse]_vars

InitSeverity == ParserIdle /\ SeverityInit /\ DashboardIdle

NextSeverity == DetectSeverityAnomalies

SpecSeverity == InitSeverity /\ [][NextSeverity]_vars

InitPattern == ParserIdle /\ PatternInit /\ DashboardIdle

NextPattern == DetectPatternAnomalies

SpecPattern == InitPattern /\ [][NextPattern]_vars

InitTemporal == ParserIdle /\ TemporalInit /\ DashboardIdle

NextTemporal == DetectTemporalAnomalies

SpecTemporal == InitTemporal /\ [][NextTemporal]_vars

InitSummary == ParserIdle /\ SummaryInit /\ DashboardIdle

NextSummary == GetAnomalySummary

SpecSummary == InitSummary /\ [][NextSummary]_vars

InitDashboard == ParserIdle /\ DetectorIdle /\ DashboardInit

NextDashboard ==
    \/ ProcessUploadedFile
    \/ ChangeFilters
    \/ ClickDetectAnomalies
    \/ ClearAnomalies
    \/ RenderAnomaliesTab
    \/ DisplayAnalysisDashboard

SpecDashboard == InitDashboard /\ [][NextDashboard]_vars

(***************************************************************************)
(* Properties of parse_logs.                                               *)
(***************************************************************************)
\* The positions (from 1) of the lines of the unsplit text that are not
\* blank, in ascending order.
NonBlankPositions(content) ==
    Ascending({i \in 1..Len(SplitLines(content)) : Strip(SplitLines(content)[i]) # ""})

\* The order in which the patterns are to be tried.
DeclaredOrder ==
    <<"custom_domain", "standard", "apache", "syslog", "java", "simple", "fallback">>

\* re.match of every pattern against every stripped line of the model.
Matched ==
    [line \in StrippedLines |->
        [name \in {DeclaredOrder[j] : j \in 1..Len(DeclaredOrder)} |->
            ReMatch(patterns(name), line)]]

\* The patterns whose regular expression matches the line.
Matching(line) == {name \in DOMAIN Matched[line] : Matched[line][name].ok}

\* C1: for every text, parse_logs returns a table that holds exactly one
\* record for each line that is not blank and nothing else, the records in
\* the order of their lines.
C1_OneRecordPerLine ==
    pc = "done" =>
        /\ raised = ""
        /\ Len(df) = Len(NonBlankPositions(log_content))
        /\ \A k \in 1..Len(df) :
              df[k].raw_line
                  = Strip(SplitLines(log_content)[NonBlankPositions(log_content)[k]])

\* C2: the line_number of each record is the position, counted from 1, of
\* its line in the unsplit text, blank lines counted, also when the text
\* starts with blank lines.
C2_OriginalLineNumbers ==
    pc = "done" =>
        /\ Len(parsed_entries) = Len(NonBlankPositions(log_content))
        /\ \A k \in 1..Len(parsed_entries) :
              parsed_entries[k].line_number = NonBlankPositions(log_content)[k]

\* C3: the pattern_used of every record is the first pattern, in the order
\* custom_domain, standard, apache, syslog, java, simple, fallback, whose
\* regular expression matches the line; the fields captured are those of
\* that pattern's match; pattern_used is never empty.
C3_FirstMatchWins ==
    pc = "done" =>
        \A k \in 1..Len(parsed_entries) :
            /\ parsed_entries[k].pattern_used # ""
            /\ \E idx \in 1..Len(DeclaredOrder) :
                 /\ parsed_entries[k].pattern_used = DeclaredOrder[idx]
                 /\ DeclaredOrder[idx] \in Matching(parsed_entries[k].raw_line)
                 /\ \A j \in 1..(idx - 1) :
                       DeclaredOrder[j] \notin Matching(parsed_entries[k].raw_line)
                 /\ \A g \in DOMAIN Matched[parsed_entries[k].raw_line][DeclaredOrder[idx]].groupdict :
                       parsed_entries[k][g]
                           = Matched[parsed_entries[k].raw_line][DeclaredOrder[idx]].groupdict[g]

\* A line that an earlier and a later pattern both match was parsed.
C3_Witness ==
    /\ pc = "done"
    /\ \E k \in 1..Len(parsed_entries) :
          /\ parsed_entries[k].pattern_used = "custom_domain"
          /\ "simple" \in Matching(parsed_entries[k].raw_line)

\* C4: the fallback pattern matches every line; a line that is not blank
\* and that none of the six other patterns matches gives a record with
\* pattern_used "fallback", severity "INFO", source "unknown", no timestamp
\* and the trimmed line as message, from the line parser and in the table;
\* the line parser gives a record for every line that is not blank.
C4_FallbackTotality ==
    /\ \A line \in StrippedLines : "fallback" \in Matching(line)
    /\ pc = "done" =>
          /\ Len(parsed_entries) = Len(NonBlankPositions(log_content))
          /\ \A k \in 1..Len(parsed_entries) :
                Matching(parsed_entries[k].raw_line) = {"fallback"} =>
                    /\ parsed_entries[k].raw_line
                         = Strip(SplitLines(log_content)[NonBlankPositions(log_content)[k]])
                    /\ parsed_entries[k].pattern_used = "fallback"
                    /\ parsed_entries[k].severity = Some("INFO")
                    /\ parsed_entries[k].source = Some("unknown")
                    /\ parsed_entries[k].timestamp = None
                    /\ parsed_entries[k].message = Some(parsed_entries[k].raw_line)
                    /\ raised = "" =>
                          /\ df[k].pattern_used = "fallback"
                          /\ df[k].severity = "INFO"
                          /\ df[k].source = "unknown"
                          /\ df[k].timestamp = None
                          /\ df[k].message = parsed_entries[k].raw_line

\* A line with spaces around it that only the fallback pattern matches was
\* parsed into a table.
C4_Witness ==
    /\ pc = "done"
    /\ raised = ""
    /\ \E k \in 1..Len(df) :
          /\ Matching(df[k].raw_line) = {"fallback"}
          /\ df[k].pattern_used = "fallback"
          /\ SplitLines(log_content)[NonBlankPositions(log_content)[k]] # df[k].raw_line

\* The severity table of the normalization, for a token in upper case.
NormalizedSeverity(x) ==
    CASE x \in {"FATAL", "CRITICAL"} -> "FATAL"
      [] x \in {"ERROR", "ERR"} -> "ERROR"
      [] x \in {"WARN", "WARNING"} -> "WARNING"
      [] x \in {"INFO", "INFORMATION", "NOTICE", "TEST", "REST", "JSON", "RAW"} -> "INFO"
      [] x \in {"DEBUG", "TRACE"} -> "DEBUG"
      [] OTHER -> x

\* C5: the severity of every row of the table is what the table FATAL,
\* CRITICAL -> FATAL; ERROR, ERR -> ERROR; WARN, WARNING -> WARNING; INFO,
\* INFORMATION, NOTICE, TEST, REST, JSON, RAW -> INFO; DEBUG, TRACE -> DEBUG
\* gives for the captured token in upper case, the upper-cased token itself
\* when the table does not list it; so every severity is in upper case.
C5_SeverityNormalized ==
    (pc = "done" /\ raised = "") =>
        \A k \in 1..Len(df) :
            /\ df[k].severity = NormalizedSeverity(Upper(parsed_entries[k].severity[1]))
            /\ df[k].severity = Upper(df[k].severity)

\* A table with a token the table lists and a token, in lower case, that it
\* does not list.
C5_Witness ==
    /\ pc = "done"
    /\ raised = ""
    /\ \E k \in 1..Len(df) :
          parsed_entries[k].severity = Some("crit") /\ df[k].severity = "CRIT"
    /\ \E k \in 1..Len(df) :
          parsed_entries[k].severity = Some("WARN") /\ df[k].severity = "WARNING"

\* C6: no exception escapes parse_logs because of a timestamp: every
\* captured token is coerced to a datetime or to null, and the table has a
\* row for every entry.
C6_CoercionNeverRaises ==
    pc = "done" =>
        /\ raised = ""
        /\ Len(df) = Len(parsed_entries)

\* C7: a text with no line that is not blank gives the empty table and no
\* exception.
C7_EmptyInput ==
    (pc = "done" /\ NonBlankPositions(log_content) = <<>>) =>
        /\ raised = ""
        /\ df = <<>>
        /\ parsed_entries = <<>>

\* A text of blank lines only was parsed.
C7_Witness ==
    /\ pc = "done"
    /\ Len(SplitLines(log_content)) > 1
    /\ NonBlankPositions(log_content) = <<>>
    /\ raised = ""
    /\ df = <<>>

(***************************************************************************)
(* Properties of detect_anomalies.                                         *)
(***************************************************************************)
\* The indices of the records whose weighted score is over the threshold.
Flagged ==
    LET final_scores == FinalScores(anomaly_scores, Len(logs))
    IN {i \in 0..(Len(logs) - 1) : Above(final_scores[i], Len(anomaly_scores))}

\* The indices detect_anomalies returned.
Returned == {anomalies[a] : a \in 1..Len(anomalies)}

\* C8: for a table of fewer than 10 records detect_anomalies returns the
\* empty list and runs no detection method, whatever the records hold.
C8_SmallTablesGiveNothing ==
    (dpc = "done" /\ Len(logs) < 10) =>
        /\ anomalies = <<>>
        /\ anomaly_scores = <<>>

\* A table of 9 records, 3 of them FATAL and outliers for IsolationForest,
\* was handled.
C8_Witness ==
    /\ dpc = "done"
    /\ Len(logs) = 9
    /\ Cardinality({i \in 1..Len(logs) : logs[i].severity = "FATAL"}) = 3
    /\ Cardinality({i \in 1..Len(logs) : sklearn.isolation_forest.value[i] = -1}) = 3
    /\ anomalies = <<>>

\* C9: every index detect_anomalies returns is an integer i with
\* 0 <= i < n, n the number of records, and no index is returned twice.
C9_IndicesValidUnique ==
    dpc = "done" =>
        \A a \in 1..Len(anomalies) :
            /\ anomalies[a] \in 0..(Len(logs) - 1)
            /\ \A b \in 1..Len(anomalies) : a # b => anomalies[a] # anomalies[b]

\* The cap was applied and the last record of the table was returned.
C9_Witness ==
    /\ dpc = "done"
    /\ 5 * Cardinality(Flagged) > Len(logs)
    /\ Len(logs) - 1 \in Returned
    /\ Len(anomalies) = 2

\* C10: for a table of n >= 10 records at most n \div 5 indices are
\* returned; when more than 20% of the records are over the threshold,
\* exactly n \div 5 are returned and no record left out has a higher
\* weighted score than a record returned.
C10_CappedAtTwentyPercent ==
    (dpc = "done" /\ Len(logs) >= 10) =>
        /\ Len(anomalies) <= Len(logs) \div 5
        /\ 5 * Cardinality(Flagged) > Len(logs) =>
              /\ Len(anomalies) = Len(logs) \div 5
              /\ LET final_scores == FinalScores(anomaly_scores, Len(logs))
                 IN \A i \in (0..(Len(logs) - 1)) \ Returned :
                       \A j \in Returned : final_scores[i] <= final_scores[j]

\* The cap was applied and a record over the threshold was left out for
\* records of a higher score.
C10_Witness ==
    /\ dpc = "done"
    /\ Len(logs) >= 10
    /\ LET final_scores == FinalScores(anomaly_scores, Len(logs))
       IN \E i \in Flagged \ Returned :
             \A j \in Returned : final_scores[i] < final_scores[j]

\* C11: no exception escapes detect_anomalies; every vector handed to the
\* combiner has one score for each record; a method that fails inside (a
\* column it reads is missing, the library raises) gives zeros only, and
\* the vector of every other method is what its own body returns; the
\* combiner, when it fails (vectors of different lengths), returns the
\* empty list.
C11_NoExceptionEscapes ==
    /\ _combine_anomaly_scores(<<Zeros(2), Zeros(3)>>, 3) = {<<>>}
    /\ dpc = "done" =>
          /\ escaped = ""
          /\ Len(logs) >= 10 =>
                /\ Len(anomaly_scores) \in {4, 5}
                /\ \A m \in 1..Len(anomaly_scores) : Len(anomaly_scores[m]) = Len(logs)
                /\ anomaly_scores[1]
                     = IF \/ sklearn.isolation_forest.exc # ""
                          \/ Columns(logs) \cap {"message_length", "word_count"} = {}
                       THEN Zeros(Len(logs))
                       ELSE StatisticalBody(logs, sklearn).value
                /\ anomaly_scores[2]
                     = IF sklearn.dbscan.exc # "" \/ ~HasColumn(logs, "message")
                       THEN Zeros(Len(logs))
                       ELSE TextBody(logs, sklearn).value
                /\ anomaly_scores[Len(anomaly_scores) - 1]
                     = IF ~HasColumn(logs, "severity") THEN Zeros(Len(logs))
                       ELSE SeverityBody(logs).value
                /\ anomaly_scores[Len(anomaly_scores)]
                     = IF ~HasColumn(logs, "message") THEN Zeros(Len(logs))
                       ELSE PatternBody(logs).value

\* A table without the severity column was handled: the severity method
\* gave zeros, the pattern method did not, and records were returned.
C11_Witness ==
    /\ dpc = "done"
    /\ Len(logs) >= 10
    /\ ~HasColumn(logs, "severity")
    /\ anomaly_scores[Len(anomaly_scores) - 1] = Zeros(Len(logs))
    /\ anomaly_scores[Len(anomaly_scores)] # Zeros(Len(logs))
    /\ anomalies # <<>>

OutsideBand(severity, count, total) ==
    CASE severity = "ERROR" -> 1000 * count < total \/ 10 * count > total
      [] severity = "FATAL" -> 10000 * count < total \/ 20 * count > total
      [] severity = "WARNING" -> 100 * count < total \/ 10 * count > 3 * total
      [] severity = "INFO" -> 10 * count < 3 * total \/ 20 * count > 19 * total
      [] severity = "DEBUG" -> 2 * count > total
      [] OTHER -> FALSE

\* The number of records of the table that have the severity of the i-th.
SameSeverity(i) == Cardinality({j \in 1..Len(logs) : logs[j].severity = logs[i].severity})

\* C13: the severity method scores a record 1.0 when fewer than 1 in 100
\* records have its severity, whatever the band says; otherwise 0.5 when
\* its severity is one of the five with a band and occurs with a frequency
\* outside the band; otherwise 0.0.
C13_SeverityScores ==
    dpc = "scored" =>
        /\ Len(method_vector) = Len(logs)
        /\ \A i \in 1..Len(logs) :
              method_vector[i]
                  = IF 100 * SameSeverity(i) < Len(logs) THEN 10
                    ELSE IF OutsideBand(logs[i].severity, SameSeverity(i), Len(logs)) THEN 5
                    ELSE 0

\* A table was scored in which a WARNING record is rare and below its band
\* (1.0), the INFO records are over their band (0.5) and the records of a
\* severity without a band are not rare (0.0).
C13_Witness ==
    /\ dpc = "scored"
    /\ \E i \in 1..Len(logs) :
          /\ logs[i].severity = "WARNING"
          /\ OutsideBand("WARNING", SameSeverity(i), Len(logs))
          /\ method_vector[i] = 10
    /\ \E i \in 1..Len(logs) : logs[i].severity = "INFO" /\ method_vector[i] = 5
    /\ \E i \in 1..Len(logs) : logs[i].severity = "CRIT" /\ method_vector[i] = 0

(***************************************************************************)
(* Properties of get_parsing_stats.                                        *)
(***************************************************************************)
\* The sum of the counts of a mapping.
RECURSIVE TotalCount(_)
TotalCount(counts) ==
    IF DOMAIN counts = {} THEN 0
    ELSE LET key == CHOOSE k \in DOMAIN counts : TRUE
         IN counts[key] + TotalCount([k \in DOMAIN counts \ {key} |-> counts[k]])

\* C14: get_parsing_stats raises nothing; for the empty table it returns
\* total 0, parsed 0 and success rate 0; for another table total_lines is
\* the number of records, parsed_lines the number of those whose
\* pattern_used is not "fallback" (so between 0 and total_lines),
\* success_rate is 100 * parsed_lines / total_lines and the counts of
\* patterns_used add up to total_lines.
C14_ParsingStats ==
    stats # None =>
        /\ stats[1].exc = ""
        /\ LET s == stats[1].value
           IN IF df = <<>>
              THEN /\ s.total_lines = 0
                   /\ s.parsed_lines = 0
                   /\ s.success_rate.num = 0
                   /\ s.success_rate.den # 0
              ELSE /\ s.total_lines = Len(df)
                   /\ s.parsed_lines
                        = Cardinality({i \in 1..Len(df) : df[i].pattern_used # "fallback"})
                   /\ 0 <= s.parsed_lines
                   /\ s.parsed_lines <= s.total_lines
                   /\ s.success_rate.den # 0
                   /\ s.success_rate.num * s.total_lines
                        = 100 * s.parsed_lines * s.success_rate.den
                   /\ TotalCount(s.patterns_used) = s.total_lines

\* The statistics of a table of three records, one of them a fallback
\* record, were computed.
C14_Witness ==
    /\ stats # None
    /\ Len(df) = 3
    /\ stats[1].value.parsed_lines = 2
    /\ stats[1].value.patterns_used["fallback"] = 1

(***************************************************************************)
(* Properties of get_anomaly_summary.                                      *)
(***************************************************************************)
\* The records the indices of the list name, in the order of the list.
Anomalous == [k \in 1..Len(anomalies) |-> logs[anomalies[k] + 1]]

\* The words of every message of the summary tables, in lower case and in
\* order, worked out once.
RECURSIVE WordTable(_)
WordTable(messages) ==
    IF messages = {} THEN <<>>
    ELSE LET One(message) ==
                 (message :> Split(Lower(message))) @@ WordTable(messages \ {message})
         IN One(CHOOSE message \in messages : TRUE)

WordsOf == WordTable(SummaryMessages)

\* The words of the messages of the records listed.
AnomalousWords ==
    UNION {{WordsOf[Anomalous[k].message][j] :
               j \in 1..Len(WordsOf[Anomalous[k].message])} : k \in 1..Len(Anomalous)}

\* How many times the word occurs in those messages.
Occurrences(word) ==
    SumOf([k \in 1..Len(Anomalous) |->
             Cardinality({j \in 1..Len(WordsOf[Anomalous[k].message]) :
                             WordsOf[Anomalous[k].message][j] = word})])

\* C15: for an empty list or an empty table the summary is 0, 0, the empty
\* mapping and the empty list; otherwise total_anomalies is the number of
\* indices, anomaly_rate is 100 * that number / the number of records,
\* severity_distribution counts the records listed by severity (the counts
\* add up to total_anomalies), and common_patterns holds at most 5 pairs,
\* the frequencies not increasing, each pair a word (in lower case) of more
\* than 3 characters from a message of a record listed, with the number of
\* times it occurs there.
C15_SummaryOfAnomalies ==
    summary # None =>
        LET s == summary[1]
        IN IF anomalies = <<>> \/ logs = <<>>
           THEN /\ s.total_anomalies = 0
                /\ s.anomaly_rate.num = 0
                /\ s.severity_distribution = <<>>
                /\ s.common_patterns = <<>>
           ELSE /\ s.total_anomalies = Len(anomalies)
                /\ s.anomaly_rate.num * Len(logs) = 100 * Len(anomalies) * s.anomaly_rate.den
                /\ DOMAIN s.severity_distribution
                     = {Anomalous[k].severity : k \in 1..Len(Anomalous)}
                /\ \A severity \in DOMAIN s.severity_distribution :
                      s.severity_distribution[severity]
                          = Cardinality({k \in 1..Len(Anomalous) :
                                            Anomalous[k].severity = severity})
                /\ TotalCount(s.severity_distribution) = s.total_anomalies
                /\ Len(s.common_patterns) <= 5
                /\ \A p \in 1..Len(s.common_patterns) :
                      /\ Len(s.common_patterns[p][1]) > 3
                      /\ s.common_patterns[p][1] \in AnomalousWords
                      /\ s.common_patterns[p][2] = Occurrences(s.common_patterns[p][1])
                      /\ p > 1 => s.common_patterns[p - 1][2] >= s.common_patterns[p][2]

\* A summary was made of three records listed out of order, whose messages
\* hold more than 5 different words of more than 3 characters, some of them
\* more often than others, and words of 3 characters.
C15_Witness ==
    /\ summary # None
    /\ Len(anomalies) = 3
    /\ anomalies[1] > anomalies[2]
    /\ Len(summary[1].common_patterns) = 5
    /\ summary[1].common_patterns[1][2] > summary[1].common_patterns[5][2]
    /\ "the" \in AnomalousWords
    /\ Cardinality({word \in AnomalousWords : Len(word) > 3}) > 5

(***************************************************************************)
(* More properties of detect_anomalies.                                    *)
(***************************************************************************)
\* The methods whose vectors were handed to the combiner, by position.
MethodsPresent ==
    IF Len(anomaly_scores) = 5
    THEN <<"statistical", "text", "temporal", "severity", "pattern">>
    ELSE <<"statistical", "text", "severity", "pattern">>

\* The weight named for each method, in hundredths.
NamedWeight ==
    [statistical |-> 20, text |-> 25, temporal |-> 20, severity |-> 15, pattern |-> 20]

\* C16: the weighted score of every record is the sum, over the methods
\* present, of the method's own weight (statistical 0.2, text 0.25,
\* temporal 0.2, severity 0.15, pattern 0.2) times the method's score,
\* divided by the sum of the weights of the methods present; also when the
\* temporal method is not present.
C16_WeightsByMethod ==
    (dpc = "done" /\ Len(logs) >= 10 /\ escaped = "") =>
        LET final_scores == FinalScores(anomaly_scores, Len(logs))
            named_total == SumOf([m \in 1..Len(anomaly_scores) |-> NamedWeight[MethodsPresent[m]]])
        IN \A i \in 0..(Len(logs) - 1) :
              final_scores[i] * named_total
                  = TotalWeight(Len(anomaly_scores))
                    * SumOf([m \in 1..Len(anomaly_scores) |->
                               NamedWeight[MethodsPresent[m]] * anomaly_scores[m][i + 1]])

\* C17: for a table of at least 10 records with a timestamp column and at
\* least 10 timestamps the temporal method runs and its vector is handed to
\* the combiner; and when the temporal method is skipped, every weighted
\* score is what it would be with a vector of zeros in its place.
C17_TemporalFromTenTimestamps ==
    (dpc = "done" /\ Len(logs) >= 10 /\ escaped = "") =>
        /\ (HasColumn(logs, "timestamp") /\ TimestampCount(logs) >= 10) =>
              Len(anomaly_scores) = 5
        /\ Len(anomaly_scores) = 4 =>
              LET final_scores == FinalScores(anomaly_scores, Len(logs))
                  with_zeros ==
                      FinalScores(<<anomaly_scores[1], anomaly_scores[2], Zeros(Len(logs)),
                                    anomaly_scores[3], anomaly_scores[4]>>, Len(logs))
              IN \A i \in 0..(Len(logs) - 1) :
                    final_scores[i] * TotalWeight(5) = with_zeros[i] * TotalWeight(4)

\* The indices of the records whose weighted score is greater than 0.3.
OverThreshold ==
    LET final_scores == FinalScores(anomaly_scores, Len(logs))
    IN {i \in 0..(Len(logs) - 1) :
           10 * final_scores[i] > 3 * (10 * TotalWeight(Len(anomaly_scores)))}

CandidatesOf(message) ==
    {7 : k \in {j \in 1..Len(suspicious_patterns) :
                   Search(suspicious_patterns[j], Lower(message))}}
    \cup {4 : x \in {1} \cap {IF HasRepeated(message) THEN 1 ELSE 0}}
    \cup {3 : x \in {1} \cap {IF Len(message) > 1000 THEN 1 ELSE 0}}
    \cup {2 : x \in {1} \cap {IF HasNonAscii(message) THEN 1 ELSE 0}}

\* The candidates of every message of the pattern tables, worked out once.
RECURSIVE CandidateTable(_)
CandidateTable(messages) ==
    IF messages = {} THEN <<>>
    ELSE LET One(message) ==
                 (message :> CandidatesOf(message)) @@ CandidateTable(messages \ {message})
         IN One(CHOOSE message \in messages : TRUE)

Candidates == CandidateTable(PatternMessages)

Timed == {i \in 1..Len(logs) : logs[i].timestamp # None}

C22_OrderOfTheList ==
    (dpc = "done" /\ Len(logs) >= 10 /\ escaped = "") =>
        IF 5 * Cardinality(OverThreshold) <= Len(logs)
        THEN \A a, b \in 1..Len(anomalies) : a < b => anomalies[a] < anomalies[b]
        ELSE \A a, b \in 1..Len(anomalies) :
                a < b => FinalScores(anomaly_scores, Len(logs))[anomalies[a]]
                           >= FinalScores(anomaly_scores, Len(logs))[anomalies[b]]

\* C27: every index detect_anomalies returns is the index of a record with
\* a weighted score greater than 0.3, also when the cap is applied.
C27_ReturnedAreOverThreshold ==
    (dpc = "done" /\ escaped = "") => Returned \subseteq OverThreshold

\* The cap was applied: more records were over the threshold than were
\* returned.
C27_Witness ==
    /\ dpc = "done"
    /\ 5 * Cardinality(OverThreshold) > Len(logs)
    /\ Returned # {}
    /\ Cardinality(Returned) < Cardinality(OverThreshold)

\* The methods that gave the record of index i a score that is not 0.
MethodsScoring(i) == {m \in 1..Len(anomaly_scores) : anomaly_scores[m][i + 1] # 0}

\* C28: when five vectors are combined, every record returned has a score
\* that is not 0 from two methods or more.
C28_TwoMethodsAtLeast ==
    (dpc = "done" /\ escaped = "" /\ Len(anomaly_scores) = 5) =>
        \A i \in Returned : Cardinality(MethodsScoring(i)) >= 2

\* Five vectors were combined, a record was returned, and a record scored
\* by one method only was not.
C28_Witness ==
    /\ dpc = "done"
    /\ Len(anomaly_scores) = 5
    /\ Returned # {}
    /\ \E i \in (0..(Len(logs) - 1)) \ Returned : Cardinality(MethodsScoring(i)) = 1

\* C29: for a table of at most 100 records the severity method gives no
\* record the score 1.0.
C29_NoRareSeverityInSmallTables ==
    (dpc = "scored" /\ Len(logs) <= 100) =>
        \A i \in 1..Len(logs) : method_vector[i] # 10

\* A table of exactly 100 records with one record of some severity was
\* scored.
C29_Witness ==
    /\ dpc = "scored"
    /\ Len(logs) = 100
    /\ \E i \in 1..Len(logs) : SameSeverity(i) = 1 /\ method_vector[i] # 10

(***************************************************************************)
(* More properties of the line parser and of the timestamp coercion.       *)
(***************************************************************************)
\* The match of the pattern that was used for the entry.
MatchOf(entry) == Matched[entry.raw_line][entry.pattern_used]

\* Whether the match captured no value for the field: the pattern has no
\* such group, or the group took no part in the match.
NotCaptured(entry, field) ==
    \/ field \notin DOMAIN MatchOf(entry).groupdict
    \/ MatchOf(entry).groupdict[field] = None

\* C23: in the record the line parser returns, a field among timestamp,
\* severity, source and message for which the pattern used captured no
\* value has its default: null, "INFO", "unknown", the line (the message of
\* a custom_domain record, which is put together from its fields, left
\* aside); so for a pattern whose source group took no part in the match.
C23_DefaultsForMissingFields ==
    pc = "done" =>
        \A k \in 1..Len(parsed_entries) :
            /\ NotCaptured(parsed_entries[k], "timestamp") =>
                  parsed_entries[k].timestamp = None
            /\ NotCaptured(parsed_entries[k], "severity") =>
                  parsed_entries[k].severity = Some("INFO")
            /\ NotCaptured(parsed_entries[k], "source") =>
                  parsed_entries[k].source = Some("unknown")
            /\ (NotCaptured(parsed_entries[k], "message")
                    /\ parsed_entries[k].pattern_used # "custom_domain") =>
                  parsed_entries[k].message = Some(parsed_entries[k].raw_line)

\* The severity tokens of the simple pattern.
SimpleTokens == {"ERROR", "WARN", "WARNING", "INFO", "DEBUG", "TRACE", "FATAL", "CRITICAL"}

\* The word a line starts with, after an opening bracket if it has one.
LeadingWord(line) ==
    LET from == IF Ch(line, 1) = "[" THEN 2 ELSE 1
        stop == {i \in from..(Len(line) + 1) : i = Len(line) + 1 \/ ~IsWord(Ch(line, i))}
    IN SubSeq(line, from, (CHOOSE i \in stop : \A j \in stop : i <= j) - 1)

\* What follows that word, without the closing bracket and the whitespace
\* after it.
AfterLeadingWord(line) ==
    LET from == (IF Ch(line, 1) = "[" THEN 2 ELSE 1) + Len(LeadingWord(line))
        rest == SubSeq(line, from, Len(line))
        open == IF rest # "" /\ Ch(rest, 1) = "]" THEN SubSeq(rest, 2, Len(rest)) ELSE rest
        keep == {i \in 1..Len(open) : ~IsSpace(Ch(open, i))}
    IN IF keep = {} THEN ""
       ELSE SubSeq(open, CHOOSE i \in keep : \A j \in keep : i <= j, Len(open))

\* C24: for a line the simple pattern handles that starts with one of its
\* severity tokens as a whole word, bracketed or not, severity is that
\* word and message is the text after it.
C24_SimpleTakesTheWholeToken ==
    pc = "done" =>
        \A k \in 1..Len(parsed_entries) :
            (parsed_entries[k].pattern_used = "simple"
                /\ Upper(LeadingWord(parsed_entries[k].raw_line)) \in SimpleTokens) =>
                /\ parsed_entries[k].severity = Some(LeadingWord(parsed_entries[k].raw_line))
                /\ parsed_entries[k].message
                     = Some(AfterLeadingWord(parsed_entries[k].raw_line))

\* The formats of the list that accept the token, by position.
Accepting(s) == {idx \in 1..Len(formats) : Strptime(s, formats[idx])}

\* C25: a token of digits only that fromtimestamp reads is read as epoch
\* seconds; any other token is read under the first format of the list that
\* accepts it, and by the generic inference (or as null) only when no format
\* of the list accepts it.
C25_CoercionPrecedence ==
    (pc = "done" /\ raised = "") =>
        \A k \in 1..Len(df) :
            parsed_entries[k].timestamp # None =>
                LET s == Strip(parsed_entries[k].timestamp[1])
                IN IF IsDigitStr(s) /\ FromTimestamp(s) = "ok"
                   THEN df[k].timestamp = Some(Datetime("epoch", s))
                   ELSE IF Accepting(s) # {}
                   THEN df[k].timestamp
                          = Some(Datetime(formats[CHOOSE a \in Accepting(s) :
                                                     \A b \in Accepting(s) : a <= b], s))
                   ELSE \/ df[k].timestamp = None
                        \/ df[k].timestamp = Some(Datetime("pandas", s))

(***************************************************************************)
(* Properties of the dashboard.                                            *)
(***************************************************************************)
\* The outcome of the parser on the text of the latest upload.
UploadResult == Parsed[uploaded[1].file.text]

\* C26: the stored anomaly list is None or the list of the latest detection
\* run, and where the list is applied to a table (the stored table in the
\* anomalies tab, the filtered table in the dashboard) every index is a
\* valid offset and gives the record the detection run flagged.
C26_IndicesDenoteTheRecords ==
    /\ session_state.anomalies # None =>
          /\ detection # None
          /\ session_state.anomalies = Some(detection[1].anomalies)
    /\ anomaly_data # None =>
          /\ anomaly_data[1].exc = ""
          /\ \A k \in 1..Len(detection[1].anomalies) :
                anomaly_data[1].value[k]
                  = detection[1].flagged[k]

====
